---- MODULE Spec2Model ----
(***************************************************************************)
(* LemonNES: the CPU6502 core (src/cpu6502.js, the class with connectBus), *)
(* the PPU (src/ppu.js), the Bus, the Cartridge and its mappers            *)
(* (memory.js / cartridge.js) and the orchestrator runLoop (src/nes.js).   *)
(*                                                                         *)
(* The emulated machine is one record s = [cpu, ppu, ram, cart]; every     *)
(* method of the source is an operator from such a record to the record    *)
(* after the call, or to [s |-> record after, v |-> returned value].       *)
(* Typed arrays are functions from the indices holding a non-zero byte to  *)
(* that byte (Get reads 0 elsewhere, as a fresh Uint8Array does).          *)
(***************************************************************************)
EXTENDS Integers, Sequences, FiniteSets, TLC

VARIABLES cpu, ppu, ram, cart, run, obs

vars == <<cpu, ppu, ram, cart, run, obs>>

(***************************************************************************)
(* JavaScript numbers.  Two values of the language that are not integers   *)
(* occur in the code's data flow: undefined (a missing property, a typed   *)
(* array read past its end) and NaN (arithmetic on undefined).  They are   *)
(* two integers no computation of the model produces.                      *)
(***************************************************************************)
Undefined == -2000000001

NaN == -2000000002

IsNum(v) == v # Undefined /\ v # NaN

\* ToInt32, the coercion of every bitwise operator (numbers here stay below 2^31)
ToInt32(v) == IF IsNum(v) THEN v ELSE 0

JsAdd(a, b) == IF IsNum(a) /\ IsNum(b) THEN a + b ELSE NaN

JsSub(a, b) == IF IsNum(a) /\ IsNum(b) THEN a - b ELSE NaN

JsMul(a, b) == IF IsNum(a) /\ IsNum(b) THEN a * b ELSE NaN

JsLt(a, b) == IsNum(a) /\ IsNum(b) /\ a < b

JsGe(a, b) == IsNum(a) /\ IsNum(b) /\ a >= b

\* strict equality: NaN differs from everything, itself included
JsEq(a, b) == a # NaN /\ a = b

\* truthiness of a number or undefined
Truthy(v) == IsNum(v) /\ v # 0

RECURSIVE BitAnd(_, _)
\* a & b for a 32-bit a (two's complement) and a non-negative b
BitAnd(a, b) ==
  IF a = 0 \/ b = 0 THEN 0
  ELSE (a % 2) * (b % 2) + 2 * BitAnd(a \div 2, b \div 2)

And(a, b) == BitAnd(ToInt32(a), ToInt32(b))

Or(a, b) == ToInt32(a) + ToInt32(b) - And(a, b)

Xor(a, b) == ToInt32(a) + ToInt32(b) - 2 * And(a, b)

\* v & (n - 1) for n a power of two
Low(v, n) == ToInt32(v) % n

\* (v >> k) & 1
Bit(v, k) == (ToInt32(v) \div (2 ^ k)) % 2

\* v & ~m for a non-negative mask m
Clear(v, m) == ToInt32(v) - And(v, m)

\* a Uint8Array element read and write (in range)
Get(arr, i) == IF i \in DOMAIN arr THEN arr[i] ELSE 0

Put(arr, i, val) ==
  LET b == Low(val, 256) IN
  IF b = 0 THEN [j \in (DOMAIN arr) \ {i} |-> arr[j]]
  ELSE (i :> b) @@ arr

\* Uint8Array.fill(val) on an array of n elements
Fill(n, val) ==
  IF Low(val, 256) = 0 THEN << >> ELSE [j \in 0..(n - 1) |-> Low(val, 256)]

(***************************************************************************)
(* Cartridge and mapper (cartridge.js)                                     *)
(***************************************************************************)

\* A PRG image is [code, fill, vectors]: the bytes at its start, the byte repeated
\* after them, and the six bytes at its end (the NMI, RESET and IRQ vectors of a
\* 32 KiB image).  ImageByte is byte i of an image of len bytes.
ImageByte(img, len, i) ==
  IF i < Len(img.code) THEN img.code[i + 1]
  ELSE IF i >= len - 6 THEN img.vectors[i - (len - 6) + 1]
  ELSE img.fill

\* prg[i]: a typed array read, undefined past the end
PrgAt(c, i) ==
  IF i >= 0 /\ i < c.prgLen THEN ImageByte(c.prg, c.prgLen, i) ELSE Undefined

ChrAt(c, i) == IF i >= 0 /\ i < c.chrLen THEN Get(c.chr, i) ELSE Undefined

\* The mapper object parseINES instantiates for a mapper number: the fields its
\* constructor sets (ids other than 1, 2, 3, 4 fall back to Mapper0; the
\* constructor of Mapper4 assigns to the getter-only property mirror and throws,
\* so that no cartridge is built for mapper 4)
Mapper_new(m) ==
  CASE m = 1 -> [kind |-> "Mapper1", shift |-> 16, ctrl |-> 12, prgBank |-> 0,
                 chrBank0 |-> 0, chrBank1 |-> 0]
    [] m = 2 -> [kind |-> "Mapper2", bank |-> 0]
    [] m = 3 -> [kind |-> "Mapper3", chrBank |-> 0]
    [] m = 4 -> [kind |-> "Mapper4"]
    [] OTHER -> [kind |-> "Mapper0"]

\* Cartridge.parseINES on a file whose body has the declared length: the header
\* bytes 4..7 and the PRG image
Cartridge_new(prgBanks, chrBanks, flag6, flag7, prg) ==
  [mapperId |-> Low(Or(And(flag7, 240), flag6 \div 16), 256),
   mirror |-> IF Bit(flag6, 0) = 1 THEN "vertical" ELSE "horizontal",
   hasTrainer |-> Bit(flag6, 2) = 1,
   prg |-> prg, prgLen |-> prgBanks * 16384,
   chr |-> << >>, chrLen |-> IF chrBanks # 0 THEN chrBanks * 8192 ELSE 8192,
   chrRAM |-> chrBanks = 0,
   sram |-> << >>,
   mapperInstance |-> Mapper_new(Low(Or(And(flag7, 240), flag6 \div 16), 256))]

\* The four bytes an iNES file starts with
Magic == <<78, 69, 83, 26>>

\* A ROM file as parseINES sees it: [magic, prgBanks, chrBanks, flag6, flag7] are its
\* bytes 0..7, body is the number of bytes that follow its 16-byte header, and prg
\* is the image of the PRG bytes it holds.  Declared is the body its header declares.
Declared(b) ==
  (IF Bit(b.flag6, 2) = 1 THEN 512 ELSE 0) + b.prgBanks * 16384 + b.chrBanks * 8192

\* b.slice(16 + from, 16 + to).length on a file of body bytes after the header
SliceLen(body, from, to) ==
  IF body <= from THEN 0 ELSE IF body < to THEN body - from ELSE to - from

\* a faulty constructor that does not look at the magic
Cartridge_throws_NoMagicCheck(b) ==
  Low(Or(And(b.flag7, 240), b.flag6 \div 16), 256) = 4

\* new Cartridge(bytes) throws: 'Not an iNES file' on a wrong magic, and the
\* TypeError of the Mapper4 constructor on mapper number 4
Cartridge_throws(b) ==
  IF b.magic # Magic THEN TRUE
  ELSE Low(Or(And(b.flag7, 240), b.flag6 \div 16), 256) = 4

\* Cartridge.parseINES on a file with the right magic: slice() stops at the end of
\* the file, so that a short body leaves prg and chr shorter than declared
Cartridge_parseINES(b) ==
  LET off == IF Bit(b.flag6, 2) = 1 THEN 512 ELSE 0
      prgSize == b.prgBanks * 16384
      chrSize == b.chrBanks * 8192
  IN [Cartridge_new(b.prgBanks, b.chrBanks, b.flag6, b.flag7, b.prg) EXCEPT
        !.prgLen = SliceLen(b.body, off, off + prgSize),
        !.chrLen = IF chrSize # 0 THEN SliceLen(b.body, off + prgSize, off + prgSize + chrSize)
                   ELSE 8192]

\* Cartridge.read: the PRG read the Bus uses (the Cartridge has no prgRead)
Cartridge_read(c, addr) ==
  IF addr >= 32768 THEN PrgAt(c, addr - 32768) ELSE 0

\* the mirroring mode Mapper1.writeReg stores for the low two bits of control
Mapper1_mirror(data) ==
  CASE And(data, 3) = 0 -> "horizontal"
    [] And(data, 3) = 1 -> "vertical"
    [] And(data, 3) = 2 -> "single0"
    [] And(data, 3) = 3 -> "single1"

\* a faulty reset that leaves the bits shifted in so far in the shift register
Mapper1_resetShift_KeepsBits(c) ==
  [c EXCEPT !.mapperInstance.ctrl = Or(c.mapperInstance.ctrl, 12)]

\* Mapper1.writeReg, val & 0x80: shift = 0x10, ctrl |= 0x0C
Mapper1_resetShift(c) ==
  [c EXCEPT !.mapperInstance.shift = 16,
            !.mapperInstance.ctrl = Or(c.mapperInstance.ctrl, 12)]

\* Mapper1.writeReg, if (complete): the register bits 13-14 of the address select
\* receives data, and the shift register goes back to 0x10
Mapper1_commit(c, addr, data) ==
  LET reg == And(addr \div 8192, 3)
      m == [c.mapperInstance EXCEPT !.shift = 16] IN
  CASE reg = 0 -> [c EXCEPT !.mapperInstance = [m EXCEPT !.ctrl = data],
                            !.mirror = Mapper1_mirror(data)]
    [] reg = 1 -> [c EXCEPT !.mapperInstance = [m EXCEPT !.chrBank0 = data]]
    [] reg = 2 -> [c EXCEPT !.mapperInstance = [m EXCEPT !.chrBank1 = data]]
    [] reg = 3 -> [c EXCEPT !.mapperInstance = [m EXCEPT !.prgBank = And(data, 15)]]

\* Mapper1.writeReg(addr, val) on the cartridge c of the mapper
Mapper1_writeReg(c, addr, val) ==
  IF And(val, 128) # 0 THEN Mapper1_resetShift(c)
  ELSE LET complete == And(c.mapperInstance.shift, 1)
           shift == Or(c.mapperInstance.shift \div 2, And(val, 1) * 16) IN
       IF complete # 0 THEN Mapper1_commit(c, addr, And(shift, 31))
       ELSE [c EXCEPT !.mapperInstance.shift = shift]

\* Mapper1.prgWrite
Mapper1_prgWrite(c, addr, val) == Mapper1_writeReg(c, addr, val)

\* Mapper2.prgWrite: bank = val & 0x0F
Mapper2_prgWrite(c, addr, val) == [c EXCEPT !.mapperInstance.bank = And(val, 15)]

\* Mapper3.prgWrite: chrBank = val & 0x03
Mapper3_prgWrite(c, addr, val) == [c EXCEPT !.mapperInstance.chrBank = And(val, 3)]

\* cart.mapperInstance.prgWrite(addr, val): the method of the mapper's class (Mapper0
\* inherits Mapper.prgWrite, which does nothing)
prgWrite(c, addr, val) ==
  CASE c.mapperInstance.kind = "Mapper1" -> Mapper1_prgWrite(c, addr, val)
    [] c.mapperInstance.kind = "Mapper2" -> Mapper2_prgWrite(c, addr, val)
    [] c.mapperInstance.kind = "Mapper3" -> Mapper3_prgWrite(c, addr, val)
    [] OTHER -> c

\* Mapper0.prgRead: a 16 KiB PRG is seen again at $C000
Mapper0_prgRead(c, addr) ==
  IF c.prgLen = 16384 /\ addr >= 49152 THEN PrgAt(c, addr - 49152)
  ELSE PrgAt(c, addr - 32768)

\* Mapper1.prgRead: control bits 2-3 select one 32 KiB bank (0, 1), the first bank
\* fixed at $8000 (2) or the last bank fixed at $C000 (3)
Mapper1_prgRead(c, addr) ==
  LET m == c.mapperInstance
      mode == And(m.ctrl \div 4, 3)
  IN  IF mode \in {0, 1} THEN PrgAt(c, And(m.prgBank, 14) * 16384 + (addr - 32768))
      ELSE IF mode = 2
      THEN IF addr < 49152 THEN PrgAt(c, addr - 32768)
           ELSE PrgAt(c, m.prgBank * 16384 + (addr - 49152))
      ELSE IF addr < 49152 THEN PrgAt(c, m.prgBank * 16384 + (addr - 32768))
           ELSE PrgAt(c, c.prgLen - 16384 + (addr - 49152))

\* Mapper2.prgRead: the bank selected at $8000, the last bank at $C000
Mapper2_prgRead(c, addr) ==
  IF addr < 49152 THEN PrgAt(c, c.mapperInstance.bank * 16384 + (addr - 32768))
  ELSE PrgAt(c, c.prgLen - 16384 + (addr - 49152))

\* Mapper3.prgRead
Mapper3_prgRead(c, addr) == PrgAt(c, addr - 32768)

\* cart.mapperInstance.prgRead(addr): the method of the mapper's class
prgRead(c, addr) ==
  CASE c.mapperInstance.kind = "Mapper1" -> Mapper1_prgRead(c, addr)
    [] c.mapperInstance.kind = "Mapper2" -> Mapper2_prgRead(c, addr)
    [] c.mapperInstance.kind = "Mapper3" -> Mapper3_prgRead(c, addr)
    [] OTHER -> Mapper0_prgRead(c, addr)

\* Mapper.chrRead (base class; mappers 0 and 2 inherit it)
Mapper_chrRead(c, addr) == ChrAt(c, And(addr, c.chrLen - 1))

\* Mapper.chrWrite (base class)
Mapper_chrWrite(c, addr, val) ==
  IF c.chrRAM
  THEN [c EXCEPT !.chr = Put(c.chr, And(addr, c.chrLen - 1), val)]
  ELSE c

\* cart.chr[i] = val: a typed array store, dropped past the end
ChrPut(c, i, val) ==
  IF i >= 0 /\ i < c.chrLen THEN [c EXCEPT !.chr = Put(c.chr, i, val)] ELSE c

\* the index into cart.chr of Mapper1.chrRead and Mapper1.chrWrite: one 8 KiB bank
\* (ctrl bit 4 clear) or two 4 KiB banks
Mapper1_chrIndex(c, addr) ==
  IF Bit(c.mapperInstance.ctrl, 4) = 0
  THEN And(c.mapperInstance.chrBank0, 30) * 4096 + addr
  ELSE (IF addr < 4096 THEN c.mapperInstance.chrBank0 ELSE c.mapperInstance.chrBank1)
         * 4096 + And(addr, 4095)

\* Mapper1.chrRead
Mapper1_chrRead(c, addr) == ChrAt(c, Mapper1_chrIndex(c, addr))

\* Mapper1.chrWrite
Mapper1_chrWrite(c, addr, val) ==
  IF c.chrRAM THEN ChrPut(c, Mapper1_chrIndex(c, addr), val) ELSE c

\* Mapper3.chrRead
Mapper3_chrRead(c, addr) == ChrAt(c, c.mapperInstance.chrBank * 8192 + addr)

\* this.mapper.chrRead(addr): the method of the cartridge's mapper object
chrRead(c, addr) ==
  CASE c.mapperInstance.kind = "Mapper1" -> Mapper1_chrRead(c, addr)
    [] c.mapperInstance.kind = "Mapper3" -> Mapper3_chrRead(c, addr)
    [] OTHER -> Mapper_chrRead(c, addr)

\* this.mapper.chrWrite(addr, val): the method of the cartridge's mapper object
chrWrite(c, addr, val) ==
  IF c.mapperInstance.kind = "Mapper1" THEN Mapper1_chrWrite(c, addr, val)
  ELSE Mapper_chrWrite(c, addr, val)

(***************************************************************************)
(* PPU memory and CPU-visible registers (ppu.js)                           *)
(***************************************************************************)

\* PPU.ntIndex: nametable address -> VRAM index under this.mirror
ntIndex(p, addr) ==
  LET a == Low(addr, 4096)
      nt == (a \div 1024) % 4
      off == a % 1024
  IN IF p.mirror = "vertical" THEN ((nt % 2) * 1024) + off
     ELSE IF p.mirror = "horizontal" THEN (((nt \div 2) % 2) * 1024) + off
     ELSE off

\* a faulty palette index without the aliases of $3F10/$3F14/$3F18/$3F1C
PaletteIndex_NoMirror(addr) == Low(addr, 32)

\* the palette cell an address in $3F00-$3FFF names
PaletteIndex(addr) ==
  IF Low(addr, 32) \in {16, 20, 24, 28} THEN Low(addr, 32) - 16 ELSE Low(addr, 32)

\* PPU.ppuRead
ppuRead(s, addr0) ==
  LET addr == Low(addr0, 16384) IN
  IF addr < 8192 THEN chrRead(s.cart, Low(addr, 8192))
  ELSE IF addr < 16128 THEN Get(s.ppu.vram, Low(ntIndex(s.ppu, addr), 2048))
  ELSE Low(Get(s.ppu.palette, PaletteIndex(addr)), 64)

\* PPU.ppuWrite
ppuWrite(s, addr0, val0) ==
  LET addr == Low(addr0, 16384) IN
  IF addr < 8192
  THEN [s EXCEPT !.cart = chrWrite(s.cart, Low(addr, 8192), Low(val0, 256))]
  ELSE IF addr < 16128
  THEN [s EXCEPT !.ppu.vram = Put(s.ppu.vram, Low(ntIndex(s.ppu, addr), 2048), val0)]
  ELSE [s EXCEPT !.ppu.palette = Put(s.ppu.palette, PaletteIndex(addr), Low(val0, 64))]

\* a faulty increment that is 1 whatever ctrl bit 2 holds
VramIncrement_AlwaysOne(p) == Low(p.v + 1, 32768)

\* v after a $2007 access: the increment ctrl bit 2 selects, in 15 bits
VramIncrement(p) == Low(p.v + (IF Bit(p.ctrl, 2) = 1 THEN 32 ELSE 1), 32768)

\* a faulty $2007 read that sends palette reads through the read buffer too
ReadData_AlwaysBuffered(s, addr14, val) ==
  [s |-> [s EXCEPT !.ppu.buffered = val, !.ppu.v = VramIncrement(s.ppu)],
   v |-> s.ppu.buffered]

\* PPU.read, case 7, once val = ppuRead(addr14) is at hand
ReadData(s, addr14, val) ==
  IF addr14 >= 16128
  THEN [s |-> [s EXCEPT !.ppu.buffered = ppuRead(s, addr14 - 4096),
                        !.ppu.v = VramIncrement(s.ppu)],
        v |-> val]
  ELSE [s |-> [s EXCEPT !.ppu.buffered = val, !.ppu.v = VramIncrement(s.ppu)],
        v |-> s.ppu.buffered]

\* a faulty $2002 read that leaves the write toggle as it was
ReadStatus_KeepsToggle(s) ==
  [s |-> [s EXCEPT !.ppu.status = Clear(s.ppu.status, 128)],
   v |-> And(s.ppu.status, 224) + Low(s.ppu.buffered, 32)]

\* PPU.read, case 2 ($2002): the status with the low bits of the read buffer;
\* clears VBlank and the write toggle
ReadStatus(s) ==
  [s |-> [s EXCEPT !.ppu.status = Clear(s.ppu.status, 128), !.ppu.w = 0],
   v |-> And(s.ppu.status, 224) + Low(s.ppu.buffered, 32)]

\* PPU.read: $2002, $2004, $2007; every other register reads 0
PPU_read(s, addr) ==
  CASE Low(addr, 8) = 2 -> ReadStatus(s)
    [] Low(addr, 8) = 4 -> [s |-> s, v |-> Get(s.ppu.oam, Low(s.ppu.oamaddr, 256))]
    [] Low(addr, 8) = 7 -> ReadData(s, Low(s.ppu.v, 16384), ppuRead(s, s.ppu.v))
    [] OTHER -> [s |-> s, v |-> 0]

\* a faulty $2005 write whose first write leaves the toggle at 0
WriteScroll_KeepsToggle(p, val) ==
  IF p.w = 0
  THEN [p EXCEPT !.x = val % 8, !.t = And(p.t, 32736) + (val \div 8)]
  ELSE [p EXCEPT !.t = And(p.t, 3103) + ((val % 8) * 4096) + ((val \div 8) * 32),
            !.w = 0]

\* PPU.write, cases 5 and 6: the two-write registers $2005 and $2006
WriteScroll(p, val) ==
  IF p.w = 0
  THEN [p EXCEPT !.x = val % 8, !.t = And(p.t, 32736) + (val \div 8), !.w = 1]
  ELSE [p EXCEPT !.t = And(p.t, 3103) + ((val % 8) * 4096) + ((val \div 8) * 32),
            !.w = 0]

WriteAddr(p, val) ==
  IF p.w = 0
  THEN [p EXCEPT !.t = Low(p.t, 256) + ((val % 64) * 256), !.w = 1]
  ELSE [p EXCEPT !.t = And(p.t, 32512) + val, !.v = And(p.t, 32512) + val, !.w = 0]

\* PPU.write after val &= 0xFF: the switch on reg = addr & 7
WriteRegister(s, reg, val) ==
  CASE reg = 0 -> [s EXCEPT !.ppu.ctrl = val,
                            !.ppu.t = And(s.ppu.t, 62463) + ((val % 4) * 1024)]
    [] reg = 1 -> [s EXCEPT !.ppu.mask = val]
    [] reg = 3 -> [s EXCEPT !.ppu.oamaddr = val]
    [] reg = 4 -> [s EXCEPT !.ppu.oam = Put(s.ppu.oam, Low(s.ppu.oamaddr, 256), val),
                            !.ppu.oamaddr = Low(s.ppu.oamaddr + 1, 256)]
    [] reg = 5 -> [s EXCEPT !.ppu = WriteScroll(s.ppu, val)]
    [] reg = 6 -> [s EXCEPT !.ppu = WriteAddr(s.ppu, val)]
    [] reg = 7 -> [ppuWrite(s, Low(s.ppu.v, 16384), val)
                     EXCEPT !.ppu.v = VramIncrement(s.ppu)]
    [] OTHER -> s

\* PPU.write: $2000-$2007
PPU_write(s, addr, val0) == WriteRegister(s, Low(addr, 8), Low(val0, 256))

\* a faulty copy that starts at OAM index 0 whatever oamaddr holds
doDMA_FromZero(p, buf) ==
  [p EXCEPT !.oam = [j \in {k \in 0..255 : buf[k + 1] # 0} |-> buf[j + 1]]]

\* PPU.doDMA(buf), buf the sequence of the 256 bytes buf[0..255]: the loop
\* oam[(oamaddr + i) & 0xFF] = buf[i] assigns every OAM index j once, from
\* i = (j - oamaddr) & 0xFF
doDMA(p, buf) ==
  [p EXCEPT !.oam =
     [j \in {k \in 0..255 : buf[Low(k + 256 - p.oamaddr, 256) + 1] # 0} |->
        buf[Low(j + 256 - p.oamaddr, 256) + 1]]]

(***************************************************************************)
(* Bus (memory.js)                                                         *)
(***************************************************************************)

\* Controller.read (input.js): no button held
Controller_read(s, k) == [s |-> s, v |-> 0]

\* APU.read (apu.js): the status register echo
APU_read(s, addr) == [s |-> s, v |-> 0]

\* a faulty decoding of the RAM address that mirrors every 4 KiB only
RamIndex_Mirror4K(addr) == Low(addr, 4096)

\* the RAM cell an address below $2000 names
RamIndex(addr) == Low(addr, 2048)

\* Bus.cpuRead
Bus_cpuRead(s, addr0) ==
  LET addr == Low(addr0, 65536) IN
  IF addr < 8192 THEN [s |-> s, v |-> Get(s.ram, RamIndex(addr))]
  ELSE IF addr < 16384 THEN PPU_read(s, 8192 + Low(addr, 8))
  ELSE IF addr = 16406 THEN Controller_read(s, 0)
  ELSE IF addr = 16407 THEN Controller_read(s, 1)
  ELSE IF addr = 16405 THEN APU_read(s, 16405)
  ELSE IF addr >= 32768 THEN [s |-> s, v |-> Cartridge_read(s.cart, addr)]
  ELSE IF addr >= 24576 THEN [s |-> s, v |-> Get(s.cart.sram, addr - 24576)]
  ELSE [s |-> s, v |-> 0]

\* the assignment of the loop body to an element of the Uint8Array, r being what
\* cpuRead gave
DmaStore(r) == [s |-> r.s, v |-> <<Low(r.v, 256)>>]

\* the bytes of two consecutive parts of the loop (the earlier part's first), right
\* being the outcome of the later part
DmaJoin(buf, right) == [v |-> buf \o right.v, s |-> right.s]

RECURSIVE DmaRead(_, _, _)
RECURSIVE DmaRest(_, _, _)
\* The OAM DMA read loop, buf[i] = cpuRead(addr + i) for i = 0..n-1, each read on
\* the machine the reads before it left: the outcome is the machine after the last
\* read and the n bytes the Uint8Array holds, as a sequence.  The loop is split in
\* halves, the second half reading from the machine the first half left.
DmaRead(s, addr, n) ==
  IF n = 1 THEN DmaStore(Bus_cpuRead(s, addr))
  ELSE DmaRest(DmaRead(s, addr, n \div 2), addr + n \div 2, n - n \div 2)

\* the second half of the loop, left being the outcome of the first half
DmaRest(left, addr, n) == DmaJoin(left.v, DmaRead(left.s, addr, n))

\* the end of the $4014 case: ppu.doDMA(buf), r being the reads' outcome
OamDma(r) == [r.s EXCEPT !.ppu = doDMA(r.s.ppu, r.v)]

\* Bus.cpuWrite
Bus_cpuWrite(s, addr0, val0) ==
  LET addr == Low(addr0, 65536) IN
  IF addr < 8192 THEN [s EXCEPT !.ram = Put(s.ram, RamIndex(addr), val0)]
  ELSE IF addr < 16384 THEN PPU_write(s, 8192 + Low(addr, 8), val0)
  ELSE IF addr = 16404 THEN OamDma(DmaRead(s, Low(val0, 256) * 256, 256))
  ELSE IF addr = 16406 THEN s
  ELSE IF addr >= 16384 /\ addr <= 16407 THEN s
  ELSE IF addr >= 32768 THEN s
  ELSE IF addr >= 24576 THEN [s EXCEPT !.cart.sram = Put(s.cart.sram, addr - 24576, val0)]
  ELSE s

(***************************************************************************)
(* CPU6502 (cpu6502.js, the class with connectBus)                         *)
(***************************************************************************)

\* CPU6502.read
CPU_read(s, addr) == Bus_cpuRead(s, addr)

\* CPU6502.write
CPU_write(s, addr, val) == Bus_cpuWrite(s, addr, val)

\* CPU6502.push
push(s, val) ==
  [CPU_write(s, JsAdd(256, s.cpu.sp), val) EXCEPT !.cpu.sp = Low(JsSub(s.cpu.sp, 1), 256)]

\* CPU6502.pop
pop(s) ==
  CPU_read([s EXCEPT !.cpu.sp = Low(JsAdd(s.cpu.sp, 1), 256)],
           256 + Low(JsAdd(s.cpu.sp, 1), 256))

\* CPU6502.getFlag
getFlag(p, bit) == Bit(p, bit)

\* CPU6502.setFlag
setFlag(p, bit, val) ==
  IF val THEN ToInt32(p) + (1 - Bit(p, bit)) * 2 ^ bit ELSE ToInt32(p) - Bit(p, bit) * 2 ^ bit

\* CPU6502.setZN
setZN(p, val) ==
  setFlag(setFlag(p, 1, Low(val, 256) = 0), 7, Bit(val, 7) = 1)

\* lo | (hi << 8)
Word(lo, hi) == Or(lo, ToInt32(hi) * 256)

\* (v >> 8) & 0xFF
HiByte(v) == Low(ToInt32(v) \div 256, 256)

\* v & 0xFF00
PageOf(v) == Low(v, 65536) - Low(v, 256)

\* const lo = this.read(a), hi = this.read(b); lo | (hi << 8)
JoinWord(lov, hi) == [s |-> hi.s, v |-> Word(lov, hi.v)]

ReadHigh(lo, b) == JoinWord(lo.v, CPU_read(lo.s, b))

ReadWord(s, a, b) == ReadHigh(CPU_read(s, a), b)

\* where reset() reads the program counter from
ResetVector == 65532

\* CPU6502.reset, from the two reads on
ResetPc(w) == [w.s EXCEPT !.cpu.pc = w.v, !.cpu.cycles = 7, !.cpu.stall = 0]

\* a faulty reset() that leaves the stack pointer as it was
CPU_reset_KeepsSp(s) ==
  ResetPc(ReadWord([s EXCEPT !.cpu.a = 0, !.cpu.x = 0, !.cpu.y = 0, !.cpu.p = 36],
                   ResetVector, ResetVector + 1))

\* CPU6502.reset
CPU_reset(s) ==
  ResetPc(ReadWord([s EXCEPT !.cpu.a = 0, !.cpu.x = 0, !.cpu.y = 0,
                             !.cpu.sp = 253, !.cpu.p = 36],
                   ResetVector, ResetVector + 1))

\* setB(b); setU(1); setI(1); push(p)
PushStatus(s, b) ==
  push([s EXCEPT !.cpu.p = setFlag(setFlag(setFlag(s.cpu.p, 4, b), 5, TRUE), 2, TRUE)],
       setFlag(setFlag(setFlag(s.cpu.p, 4, b), 5, TRUE), 2, TRUE))

\* push(pc >> 8); push(pc & 0xFF); set the flags; push(p); read the vector
EnterVector(s, b, vector) ==
  ReadWord(PushStatus(push(push(s, HiByte(s.cpu.pc)), Low(s.cpu.pc, 256)), b),
           vector, vector + 1)

\* the end of nmi() and irq(): pc from the vector, 7 cycles
InterruptPc(w) ==
  [w.s EXCEPT !.cpu.pc = w.v, !.cpu.cycles = JsAdd(w.s.cpu.cycles, 7)]

\* CPU6502.nmi
CPU_nmi(s) == InterruptPc(EnterVector(s, FALSE, 65530))

\* CPU6502.irq
CPU_irq(s) ==
  IF getFlag(s.cpu.p, 2) = 1 THEN s ELSE InterruptPc(EnterVector(s, FALSE, 65534))

\* the entry object O(mode, ins, cyc) builds
O(mode, ins, cyc) == [mode |-> mode, ins |-> ins, cyc |-> cyc]

\* this.OPCODES as buildOpcodes fills it: opcode :> entry, every other opcode absent
OPCODES ==
  0 :> O("IMP", "BRK", 7) @@ 234 :> O("IMP", "NOP", 2) @@ 169 :> O("IMM", "LDA", 2) @@
  165 :> O("ZP0", "LDA", 3) @@ 181 :> O("ZPX", "LDA", 4) @@ 173 :> O("ABS", "LDA", 4) @@
  189 :> O("ABX", "LDA", 4) @@ 185 :> O("ABY", "LDA", 4) @@ 161 :> O("IZX", "LDA", 6) @@
  177 :> O("IZY", "LDA", 5) @@ 162 :> O("IMM", "LDX", 2) @@ 166 :> O("ZP0", "LDX", 3) @@
  182 :> O("ZPY", "LDX", 4) @@ 174 :> O("ABS", "LDX", 4) @@ 190 :> O("ABY", "LDX", 4) @@
  160 :> O("IMM", "LDY", 2) @@ 164 :> O("ZP0", "LDY", 3) @@ 180 :> O("ZPX", "LDY", 4) @@
  172 :> O("ABS", "LDY", 4) @@ 188 :> O("ABX", "LDY", 4) @@ 133 :> O("ZP0", "STA", 3) @@
  149 :> O("ZPX", "STA", 4) @@ 141 :> O("ABS", "STA", 4) @@ 157 :> O("ABX", "STA", 5) @@
  153 :> O("ABY", "STA", 5) @@ 129 :> O("IZX", "STA", 6) @@ 145 :> O("IZY", "STA", 6) @@
  134 :> O("ZP0", "STX", 3) @@ 150 :> O("ZPY", "STX", 4) @@ 142 :> O("ABS", "STX", 4) @@
  132 :> O("ZP0", "STY", 3) @@ 148 :> O("ZPX", "STY", 4) @@ 140 :> O("ABS", "STY", 4) @@
  170 :> O("IMP", "TAX", 2) @@ 168 :> O("IMP", "TAY", 2) @@ 138 :> O("IMP", "TXA", 2) @@
  152 :> O("IMP", "TYA", 2) @@ 186 :> O("IMP", "TSX", 2) @@ 154 :> O("IMP", "TXS", 2) @@
  72 :> O("IMP", "PHA", 3) @@ 8 :> O("IMP", "PHP", 3) @@ 104 :> O("IMP", "PLA", 4) @@
  40 :> O("IMP", "PLP", 4) @@ 41 :> O("IMM", "AND", 2) @@ 37 :> O("ZP0", "AND", 3) @@
  53 :> O("ZPX", "AND", 4) @@ 45 :> O("ABS", "AND", 4) @@ 61 :> O("ABX", "AND", 4) @@
  57 :> O("ABY", "AND", 4) @@ 33 :> O("IZX", "AND", 6) @@ 49 :> O("IZY", "AND", 5) @@
  9 :> O("IMM", "ORA", 2) @@ 5 :> O("ZP0", "ORA", 3) @@ 21 :> O("ZPX", "ORA", 4) @@
  13 :> O("ABS", "ORA", 4) @@ 29 :> O("ABX", "ORA", 4) @@ 25 :> O("ABY", "ORA", 4) @@
  1 :> O("IZX", "ORA", 6) @@ 17 :> O("IZY", "ORA", 5) @@ 73 :> O("IMM", "EOR", 2) @@
  69 :> O("ZP0", "EOR", 3) @@ 85 :> O("ZPX", "EOR", 4) @@ 77 :> O("ABS", "EOR", 4) @@
  93 :> O("ABX", "EOR", 4) @@ 89 :> O("ABY", "EOR", 4) @@ 65 :> O("IZX", "EOR", 6) @@
  81 :> O("IZY", "EOR", 5) @@ 105 :> O("IMM", "ADC", 2) @@ 101 :> O("ZP0", "ADC", 3) @@
  117 :> O("ZPX", "ADC", 4) @@ 109 :> O("ABS", "ADC", 4) @@ 125 :> O("ABX", "ADC", 4) @@
  121 :> O("ABY", "ADC", 4) @@ 97 :> O("IZX", "ADC", 6) @@ 113 :> O("IZY", "ADC", 5) @@
  233 :> O("IMM", "SBC", 2) @@ 229 :> O("ZP0", "SBC", 3) @@ 245 :> O("ZPX", "SBC", 4) @@
  237 :> O("ABS", "SBC", 4) @@ 253 :> O("ABX", "SBC", 4) @@ 249 :> O("ABY", "SBC", 4) @@
  225 :> O("IZX", "SBC", 6) @@ 241 :> O("IZY", "SBC", 5) @@ 201 :> O("IMM", "CMP", 2) @@
  197 :> O("ZP0", "CMP", 3) @@ 213 :> O("ZPX", "CMP", 4) @@ 205 :> O("ABS", "CMP", 4) @@
  221 :> O("ABX", "CMP", 4) @@ 217 :> O("ABY", "CMP", 4) @@ 193 :> O("IZX", "CMP", 6) @@
  209 :> O("IZY", "CMP", 5) @@ 224 :> O("IMM", "CPX", 2) @@ 228 :> O("ZP0", "CPX", 3) @@
  236 :> O("ABS", "CPX", 4) @@ 192 :> O("IMM", "CPY", 2) @@ 196 :> O("ZP0", "CPY", 3) @@
  204 :> O("ABS", "CPY", 4) @@ 230 :> O("ZP0", "INC", 5) @@ 246 :> O("ZPX", "INC", 6) @@
  238 :> O("ABS", "INC", 6) @@ 254 :> O("ABX", "INC", 7) @@ 198 :> O("ZP0", "DEC", 5) @@
  214 :> O("ZPX", "DEC", 6) @@ 206 :> O("ABS", "DEC", 6) @@ 222 :> O("ABX", "DEC", 7) @@
  232 :> O("IMP", "INX", 2) @@ 200 :> O("IMP", "INY", 2) @@ 202 :> O("IMP", "DEX", 2) @@
  136 :> O("IMP", "DEY", 2) @@ 10 :> O("IMP", "ASL", 2) @@ 6 :> O("ZP0", "ASL", 5) @@
  22 :> O("ZPX", "ASL", 6) @@ 14 :> O("ABS", "ASL", 6) @@ 30 :> O("ABX", "ASL", 7) @@
  74 :> O("IMP", "LSR", 2) @@ 70 :> O("ZP0", "LSR", 5) @@ 86 :> O("ZPX", "LSR", 6) @@
  78 :> O("ABS", "LSR", 6) @@ 94 :> O("ABX", "LSR", 7) @@ 42 :> O("IMP", "ROL", 2) @@
  38 :> O("ZP0", "ROL", 5) @@ 54 :> O("ZPX", "ROL", 6) @@ 46 :> O("ABS", "ROL", 6) @@
  62 :> O("ABX", "ROL", 7) @@ 106 :> O("IMP", "ROR", 2) @@ 102 :> O("ZP0", "ROR", 5) @@
  118 :> O("ZPX", "ROR", 6) @@ 110 :> O("ABS", "ROR", 6) @@ 126 :> O("ABX", "ROR", 7) @@
  36 :> O("ZP0", "BIT", 3) @@ 44 :> O("ABS", "BIT", 4) @@ 76 :> O("ABS", "JMP", 3) @@
  108 :> O("IND", "JMP", 5) @@ 32 :> O("ABS", "JSR", 6) @@ 96 :> O("IMP", "RTS", 6) @@
  64 :> O("IMP", "RTI", 6) @@ 144 :> O("REL", "BCC", 2) @@ 176 :> O("REL", "BCS", 2) @@
  240 :> O("REL", "BEQ", 2) @@ 48 :> O("REL", "BMI", 2) @@ 208 :> O("REL", "BNE", 2) @@
  16 :> O("REL", "BPL", 2) @@ 80 :> O("REL", "BVC", 2) @@ 112 :> O("REL", "BVS", 2) @@
  24 :> O("IMP", "CLC", 2) @@ 56 :> O("IMP", "SEC", 2) @@ 88 :> O("IMP", "CLI", 2) @@
  120 :> O("IMP", "SEI", 2) @@ 184 :> O("IMP", "CLV", 2) @@ 216 :> O("IMP", "CLD", 2) @@
  248 :> O("IMP", "SED", 2)

\* a property read of an object: undefined when the object has no such property
Prop(entry, name) == IF name \in DOMAIN entry THEN entry[name] ELSE Undefined

\* read(this.pc++): the byte at pc, pc advanced
FetchByte(s) ==
  CPU_read([s EXCEPT !.cpu.pc = JsAdd(s.cpu.pc, 1)], s.cpu.pc)

\* abs(): lo | (hi << 8) from the next two bytes
FetchHigh(lo) == JoinWord(lo.v, FetchByte(lo.s))

FetchAbs(s) == FetchHigh(FetchByte(s))

\* lo = read(t), hi = read((t + 1) & 0xFF) of indX and indY
ReadZpWord(s, t) == ReadWord(s, t, Low(JsAdd(t, 1), 256))

\* lo = read(ptr), hi = read((ptr & 0xFF00) | ((ptr + 1) & 0xFF)) of ind
ReadPtr(ptr) == ReadWord(ptr.s, ptr.v, PageOf(ptr.v) + Low(JsAdd(ptr.v, 1), 256))

\* absX, absY and the tail of indY: a.v + index in 16 bits, pageCross set when the
\* sum leaves the page of a.v
Indexed(a, index) ==
  [s |-> IF PageOf(a.v) # PageOf(JsAdd(a.v, index))
         THEN [a.s EXCEPT !.cpu.pageCross = 1] ELSE a.s,
   v |-> Low(JsAdd(a.v, index), 65536)]

\* rel(): the branch target
RelTarget(pc, off) ==
  IF JsLt(off, 128) THEN JsAdd(pc, off) ELSE JsSub(JsAdd(pc, off), 256)

\* indX and indY once the pointer word is read
IndirectMode(w, mode, c) == IF mode = "IZY" THEN Indexed(w, c.y) ELSE w

\* the modes that begin with read(this.pc++): zp, zpX, zpY, indX, indY, rel
ByteMode(z, mode, c) ==
  CASE mode = "ZP0" -> z
    [] mode = "ZPX" -> [s |-> z.s, v |-> Low(JsAdd(z.v, c.x), 256)]
    [] mode = "ZPY" -> [s |-> z.s, v |-> Low(JsAdd(z.v, c.y), 256)]
    [] mode = "REL" -> [s |-> z.s, v |-> RelTarget(z.s.cpu.pc, z.v)]
    [] OTHER -> IndirectMode(ReadZpWord(z.s, IF mode = "IZX"
                                             THEN Low(JsAdd(z.v, c.x), 256) ELSE z.v),
                             mode, c)

\* the modes that begin with abs(): abs, absX, absY, ind
AbsMode(a, mode, c) ==
  CASE mode = "ABS" -> a
    [] mode = "ABX" -> Indexed(a, c.x)
    [] mode = "ABY" -> Indexed(a, c.y)
    [] OTHER -> ReadPtr(a)

\* CPU6502.fetchAddr
fetchAddr(s, mode) ==
  CASE mode = "IMM" -> [s |-> [s EXCEPT !.cpu.pc = JsAdd(s.cpu.pc, 1)], v |-> s.cpu.pc]
    [] mode \in {"ZP0", "ZPX", "ZPY", "IZX", "IZY", "REL"} ->
         ByteMode(FetchByte(s), mode, s.cpu)
    [] mode \in {"ABS", "ABX", "ABY", "IND"} -> AbsMode(FetchAbs(s), mode, s.cpu)
    [] OTHER -> [s |-> s, v |-> Undefined]

\* ADC(v) of execute: binary add with carry, setting C, V, Z, N
AddResult(c, val, t) ==
  [c EXCEPT !.a = Low(t, 256),
            !.p = setZN(setFlag(setFlag(c.p, 0, JsLt(255, t)), 6,
                                Bit(Xor(c.a, val), 7) = 0 /\ Bit(Xor(c.a, t), 7) = 1),
                        Low(t, 256))]

ADC(c, val) == AddResult(c, val, JsAdd(JsAdd(c.a, val), getFlag(c.p, 0)))

\* SBC(v) of execute
SBC(c, val) == ADC(c, Low(Xor(val, 255), 256))

\* CMP(r, v) of execute
CMP(c, r, val) ==
  [c EXCEPT !.p = setZN(setFlag(c.p, 0, JsGe(r, val)), Low(JsSub(r, val), 256))]

\* BIT(v) of execute
BIT(c, val) ==
  [c EXCEPT !.p = setFlag(setFlag(setFlag(c.p, 1, And(c.a, val) = 0),
                                  6, Bit(val, 6) = 1),
                          7, Bit(val, 7) = 1)]

\* the branch cases of execute: taken adds a cycle, and one more when pc and the
\* target differ in their page bits
Branch(s, taken, addr) ==
  IF ~taken THEN s
  ELSE [s EXCEPT !.cpu.cycles = JsAdd(s.cpu.cycles,
                                      IF PageOf(s.cpu.pc) # PageOf(addr) THEN 2 ELSE 1),
                 !.cpu.pc = addr]

\* the condition each branch instruction tests
BranchTaken(ins, p) ==
  CASE ins = "BCC" -> getFlag(p, 0) = 0
    [] ins = "BCS" -> getFlag(p, 0) = 1
    [] ins = "BEQ" -> getFlag(p, 1) = 1
    [] ins = "BNE" -> getFlag(p, 1) = 0
    [] ins = "BMI" -> getFlag(p, 7) = 1
    [] ins = "BPL" -> getFlag(p, 7) = 0
    [] ins = "BVC" -> getFlag(p, 6) = 0
    [] ins = "BVS" -> getFlag(p, 6) = 1

\* the flag a flag instruction sets or clears: <<bit, value>>
FlagOp(ins) ==
  CASE ins = "CLC" -> <<0, FALSE>>
    [] ins = "SEC" -> <<0, TRUE>>
    [] ins = "CLI" -> <<2, FALSE>>
    [] ins = "SEI" -> <<2, TRUE>>
    [] ins = "CLV" -> <<6, FALSE>>
    [] ins = "CLD" -> <<3, FALSE>>
    [] ins = "SED" -> <<3, TRUE>>

\* the shift and rotate results: <<result, carry out>>
ShiftOp(ins, val, cin) ==
  CASE ins = "ASL" -> <<Low(ToInt32(val) * 2, 256), Bit(val, 7)>>
    [] ins = "LSR" -> <<Low(ToInt32(val) \div 2, 256), Bit(val, 0)>>
    [] ins = "ROL" -> <<Low(ToInt32(val) * 2 + cin, 256), Bit(val, 7)>>
    [] ins = "ROR" -> <<Low(ToInt32(val) \div 2, 128) + cin * 128, Bit(val, 0)>>

\* setC(carry); a = r; setZN(a), r being <<result, carry out>>
ShiftA(s, r) ==
  [s EXCEPT !.cpu.a = r[1], !.cpu.p = setZN(setFlag(s.cpu.p, 0, r[2] = 1), r[1])]

\* wr(addr, v); setZN(v)
StoreResult(s, addr, val) ==
  CPU_write([s EXCEPT !.cpu.p = setZN(s.cpu.p, val)], addr, val)

\* setC(carry); wr(addr, r); setZN(r), r being <<result, carry out>>
ShiftMemory(s, addr, r) ==
  StoreResult([s EXCEPT !.cpu.p = setFlag(s.cpu.p, 0, r[2] = 1)], addr, r[1])

\* the instructions whose case reads the operand first
ReadsOperand ==
  {"LDA", "LDX", "LDY", "AND", "ORA", "EOR", "ADC", "SBC", "CMP", "CPX", "CPY", "BIT",
   "INC", "DEC"}

Shifts == {"ASL", "LSR", "ROL", "ROR"}

Branches == {"BCC", "BCS", "BEQ", "BMI", "BNE", "BPL", "BVC", "BVS"}

FlagOps == {"CLC", "SEC", "CLI", "SEI", "CLV", "CLD", "SED"}

\* execute, the cases that read the operand, m being what this.read(addr) gave
ExecRead(m, ins, addr) ==
  LET c == m.s.cpu IN
  CASE ins = "LDA" -> [m.s EXCEPT !.cpu.a = m.v, !.cpu.p = setZN(c.p, m.v)]
    [] ins = "LDX" -> [m.s EXCEPT !.cpu.x = m.v, !.cpu.p = setZN(c.p, m.v)]
    [] ins = "LDY" -> [m.s EXCEPT !.cpu.y = m.v, !.cpu.p = setZN(c.p, m.v)]
    [] ins = "AND" -> [m.s EXCEPT !.cpu.a = And(c.a, m.v),
                                  !.cpu.p = setZN(c.p, And(c.a, m.v))]
    [] ins = "ORA" -> [m.s EXCEPT !.cpu.a = Or(c.a, m.v),
                                  !.cpu.p = setZN(c.p, Or(c.a, m.v))]
    [] ins = "EOR" -> [m.s EXCEPT !.cpu.a = Xor(c.a, m.v),
                                  !.cpu.p = setZN(c.p, Xor(c.a, m.v))]
    [] ins = "ADC" -> [m.s EXCEPT !.cpu = ADC(c, m.v)]
    [] ins = "SBC" -> [m.s EXCEPT !.cpu = SBC(c, m.v)]
    [] ins = "CMP" -> [m.s EXCEPT !.cpu = CMP(c, c.a, m.v)]
    [] ins = "CPX" -> [m.s EXCEPT !.cpu = CMP(c, c.x, m.v)]
    [] ins = "CPY" -> [m.s EXCEPT !.cpu = CMP(c, c.y, m.v)]
    [] ins = "BIT" -> [m.s EXCEPT !.cpu = BIT(c, m.v)]
    [] ins = "INC" -> StoreResult(m.s, addr, Low(JsAdd(m.v, 1), 256))
    [] ins = "DEC" -> StoreResult(m.s, addr, Low(JsSub(m.v, 1), 256))
    [] OTHER -> ShiftMemory(m.s, addr, ShiftOp(ins, m.v, getFlag(c.p, 0)))

\* the register an instruction works on
Reg(c, ins) ==
  CASE ins \in {"STA", "TAX", "TAY", "PHA"} -> c.a
    [] ins \in {"STX", "TXA", "TXS", "INX", "DEX"} -> c.x
    [] ins \in {"STY", "TYA", "INY", "DEY"} -> c.y
    [] ins = "TSX" -> c.sp
    [] ins = "PHP" -> Or(c.p, 16)

\* the value of the register cases: a transfer's source, x or y stepped by one
RegResult(c, ins) ==
  CASE ins \in {"INX", "INY"} -> Low(JsAdd(Reg(c, ins), 1), 256)
    [] ins \in {"DEX", "DEY"} -> Low(JsSub(Reg(c, ins), 1), 256)
    [] OTHER -> Reg(c, ins)

\* execute, the transfers and INX, INY, DEX, DEY: the register assigned, then setZN
ExecRegister(c, ins, val) ==
  CASE ins \in {"TAX", "TSX", "INX", "DEX"} -> [c EXCEPT !.x = val, !.p = setZN(c.p, val)]
    [] ins \in {"TAY", "INY", "DEY"} -> [c EXCEPT !.y = val, !.p = setZN(c.p, val)]
    [] ins \in {"TXA", "TYA"} -> [c EXCEPT !.a = val, !.p = setZN(c.p, val)]
    [] ins = "TXS" -> [c EXCEPT !.sp = val]

\* PLA and PLP, and the first pop of RTI: m is what this.pop() gave
Pull(m, ins) ==
  IF ins = "PLA"
  THEN [m.s EXCEPT !.cpu.a = m.v, !.cpu.p = setZN(m.s.cpu.p, m.v)]
  ELSE [m.s EXCEPT !.cpu.p = Or(And(m.v, 239), 32)]

\* const lo = this.pop(), hi = this.pop(): (hi << 8) | lo
PopHigh(lo) == JoinWord(lo.v, pop(lo.s))

PopWord(s) == PopHigh(pop(s))

\* RTS and RTI: pc from the popped word
ReturnPc(w, ins) == [w.s EXCEPT !.cpu.pc = IF ins = "RTS" THEN w.v + 1 ELSE w.v]

\* BRK from its pushes on: pc from the IRQ vector
BreakPc(w) == [w.s EXCEPT !.cpu.pc = w.v]

\* CPU6502.execute
execute(s, ins, addr) ==
  CASE ins \in ReadsOperand \/ (ins \in Shifts /\ s.cpu.addrMode # "IMP") ->
         ExecRead(CPU_read(s, addr), ins, addr)
    [] ins \in Shifts /\ s.cpu.addrMode = "IMP" ->
         ShiftA(s, ShiftOp(ins, s.cpu.a, getFlag(s.cpu.p, 0)))
    [] ins \in {"STA", "STX", "STY"} -> CPU_write(s, addr, Reg(s.cpu, ins))
    [] ins \in {"PHA", "PHP"} -> push(s, Reg(s.cpu, ins))
    [] ins \in {"TAX", "TAY", "TXA", "TYA", "TSX", "TXS", "INX", "INY", "DEX", "DEY"} ->
         [s EXCEPT !.cpu = ExecRegister(s.cpu, ins, RegResult(s.cpu, ins))]
    [] ins \in {"PLA", "PLP"} -> Pull(pop(s), ins)
    [] ins = "RTS" -> ReturnPc(PopWord(s), ins)
    [] ins = "RTI" -> ReturnPc(PopWord(Pull(pop(s), ins)), ins)
    [] ins = "JMP" -> [s EXCEPT !.cpu.pc = addr]
    [] ins = "JSR" ->
         [push(push(s, HiByte(JsSub(s.cpu.pc, 1))), Low(JsSub(s.cpu.pc, 1), 256))
            EXCEPT !.cpu.pc = addr]
    [] ins = "BRK" ->
         BreakPc(EnterVector([s EXCEPT !.cpu.pc = JsAdd(s.cpu.pc, 1)], TRUE, 65534))
    [] ins \in Branches -> Branch(s, BranchTaken(ins, s.cpu.p), addr)
    [] ins \in FlagOps ->
         [s EXCEPT !.cpu.p = setFlag(s.cpu.p, FlagOp(ins)[1], FlagOp(ins)[2])]
    [] OTHER -> s

\* the cycle count an opcode entry contributes in step(): entry.cy
EntryCycles(entry) == Prop(entry, "cy")

\* step(): return this.cycles - cyclesBefore
Return(s, cyclesBefore) == [s |-> s, v |-> JsSub(s.cpu.cycles, cyclesBefore)]

\* step(): const c = entry.cy + this.pageCross; this.cycles += c
Charge(s, entry, cyclesBefore) ==
  Return([s EXCEPT !.cpu.cycles =
            JsAdd(s.cpu.cycles, JsAdd(EntryCycles(entry), s.cpu.pageCross))],
         cyclesBefore)

\* step(): cyclesBefore and this.execute(entry.ins, addr), a being what fetchAddr gave
Execute(a, entry) == Charge(execute(a.s, entry.ins, a.v), entry, a.s.cpu.cycles)

\* step() from the table lookup on, f being what read(this.pc++) gave
Decode(f) ==
  IF f.v \notin DOMAIN OPCODES THEN [s |-> f.s, v |-> 1]
  ELSE Execute(fetchAddr([f.s EXCEPT !.cpu.addrMode = OPCODES[f.v].mode,
                                     !.cpu.pageCross = 0],
                         OPCODES[f.v].mode),
               OPCODES[f.v])

\* CPU6502.step: the machine after the call and the value returned
CPU_step(s) ==
  IF JsLt(0, s.cpu.stall)
  THEN [s |-> [s EXCEPT !.cpu.stall = s.cpu.stall - 1,
                        !.cpu.cycles = JsAdd(s.cpu.cycles, 1)],
        v |-> 1]
  ELSE Decode(FetchByte(s))

(***************************************************************************)
(* PPU rendering pipeline and the dot step (ppu.js)                        *)
(***************************************************************************)

\* NTSC_PALETTE: [r, g, b] per 6-bit colour
NTSC_PALETTE == <<
  <<84, 84, 84>>, <<0, 30, 116>>, <<8, 16, 144>>, <<48, 0, 136>>, <<68, 0, 100>>, <<92, 0, 48>>,
  <<84, 4, 0>>, <<60, 24, 0>>, <<32, 42, 0>>, <<8, 58, 0>>, <<0, 64, 0>>, <<0, 60, 0>>,
  <<0, 50, 60>>, <<0, 0, 0>>, <<0, 0, 0>>, <<0, 0, 0>>, <<152, 150, 152>>, <<8, 76, 196>>,
  <<48, 50, 236>>, <<92, 30, 228>>, <<136, 20, 176>>, <<160, 20, 100>>, <<152, 34, 32>>, <<120, 60, 0>>,
  <<84, 90, 0>>, <<40, 114, 0>>, <<8, 124, 0>>, <<0, 118, 40>>, <<0, 102, 120>>, <<0, 0, 0>>,
  <<0, 0, 0>>, <<0, 0, 0>>, <<236, 238, 236>>, <<76, 154, 236>>, <<120, 124, 236>>, <<176, 98, 236>>,
  <<228, 84, 236>>, <<236, 88, 180>>, <<236, 106, 100>>, <<212, 136, 32>>, <<160, 170, 0>>, <<116, 196, 0>>,
  <<76, 208, 32>>, <<56, 204, 108>>, <<56, 180, 204>>, <<60, 60, 60>>, <<0, 0, 0>>, <<0, 0, 0>>,
  <<236, 238, 236>>, <<168, 204, 236>>, <<188, 188, 236>>, <<212, 178, 236>>, <<236, 174, 236>>, <<236, 174, 212>>,
  <<236, 180, 176>>, <<228, 196, 144>>, <<204, 210, 120>>, <<180, 222, 120>>, <<168, 226, 144>>, <<152, 226, 180>>,
  <<160, 214, 228>>, <<160, 162, 160>>, <<0, 0, 0>>, <<0, 0, 0>>
>>

\* this.paletteRGB[i] as attachCanvas fills it: the opaque pixel of colour i
paletteRGB(i) == NTSC_PALETTE[i + 1]

\* PPU.incCoarseX
incCoarseX(p) ==
  IF Low(p.v, 32) = 31
  THEN [p EXCEPT !.v = Xor(Clear(p.v, 31), 1024)]
  ELSE [p EXCEPT !.v = p.v + 1]

\* incY once fine Y has wrapped: coarse Y (bits 5..9 of v1) steps, 29 wraps into the
\* other nametable, 31 wraps in place
WrapCoarseY(v1) ==
  IF Low(v1 \div 32, 32) = 29 THEN Xor(Clear(v1, 992), 2048)
  ELSE IF Low(v1 \div 32, 32) = 31 THEN Clear(v1, 992)
  ELSE v1 + 32

\* PPU.incY
incY(p) ==
  IF And(p.v, 28672) # 28672
  THEN [p EXCEPT !.v = p.v + 4096]
  ELSE [p EXCEPT !.v = WrapCoarseY(Clear(p.v, 28672))]

\* PPU.copyX
copyX(p) == [p EXCEPT !.v = Clear(p.v, 1055) + And(p.t, 1055)]

\* PPU.copyY
copyY(p) == [p EXCEPT !.v = Clear(p.v, 31712) + And(p.t, 31712)]

\* PPU.fetchName
fetchName(s) ==
  [s EXCEPT !.ppu.nameTableByte = ppuRead(s, 8192 + Low(s.ppu.v, 4096))]

\* fetchAttr from the read on: the byte, and its two bits for this tile, shifted left 2
AttrLatch(s, byte, shift) ==
  [s EXCEPT !.ppu.attrTableByte = byte,
            !.ppu.bgLatchPal = ((byte \div (2 ^ shift)) % 4) * 4]

\* PPU.fetchAttr
fetchAttr(s) ==
  AttrLatch(s,
            ppuRead(s, 9152 + And(s.ppu.v, 3072) + And(s.ppu.v \div 16, 56)
                       + Low(s.ppu.v \div 4, 8)),
            And(s.ppu.v \div 16, 4) + And(s.ppu.v, 2))

\* the pattern address of the background tile row being fetched
BgPatternAddr(p) ==
  (Bit(p.ctrl, 4) * 4096) + (Low(p.nameTableByte, 256) * 16) + ((p.v \div 4096) % 8)

\* PPU.fetchPatternLow
fetchPatternLow(s) == [s EXCEPT !.ppu.patternLo = ppuRead(s, BgPatternAddr(s.ppu))]

\* PPU.fetchPatternHigh
fetchPatternHigh(s) == [s EXCEPT !.ppu.patternHi = ppuRead(s, BgPatternAddr(s.ppu) + 8)]

\* PPU.loadBGShiftRegisters
loadBGShiftRegisters(p) ==
  [p EXCEPT !.bgShiftLo = Low(p.bgShiftLo, 256) + Low(p.patternLo, 256) * 256,
            !.bgShiftHi = Low(p.bgShiftHi, 256) + Low(p.patternHi, 256) * 256,
            !.attrShiftLo = Low(p.attrShiftLo, 256) + Bit(p.bgLatchPal, 0) * 65280,
            !.attrShiftHi = Low(p.attrShiftHi, 256) + Bit(p.bgLatchPal, 1) * 65280]

\* the sprite height ctrl bit 5 selects
SpriteHeight(p) == IF Bit(p.ctrl, 5) = 1 THEN 16 ELSE 8

RECURSIVE EvalScan(_, _)
\* the first loop of evaluateSprites: primary OAM entries i..63 into secondary OAM
EvalScan(p, i) ==
  IF i > 63 THEN p
  ELSE LET o == i * 4
           row == p.scanline - Get(p.oam, o)
       IN IF row >= 0 /\ row < SpriteHeight(p)
          THEN LET dest == p.spriteCount * 4
                   p1 == IF p.spriteCount < 8
                         THEN [p EXCEPT !.secOAM =
                                  Put(Put(Put(Put(p.secOAM, dest, Get(p.oam, o)),
                                              dest + 1, Get(p.oam, o + 1)),
                                          dest + 2, Get(p.oam, o + 2)),
                                      dest + 3, Get(p.oam, o + 3)),
                                        !.spriteZeroInLine = (i = 0) \/ p.spriteZeroInLine]
                         ELSE p
                   p2 == [p1 EXCEPT !.spriteCount = p.spriteCount + 1]
               IN IF p2.spriteCount = 9
                  THEN [p2 EXCEPT !.status = Or(p2.status, 32)]
                  ELSE EvalScan(p2, i + 1)
          ELSE EvalScan(p, i + 1)

RECURSIVE EvalLoad(_, _)
\* the second loop of evaluateSprites: secondary OAM slots i..7 into the sprite registers
EvalLoad(p, i) ==
  IF i > 7 THEN p
  ELSE LET base == i * 4
           sy == Get(p.secOAM, base)
       IN IF sy = 255
          THEN EvalLoad([p EXCEPT !.spriteY = Put(p.spriteY, i, 255),
                                  !.spriteX = Put(p.spriteX, i, 0),
                                  !.spriteAttr = Put(p.spriteAttr, i, 0),
                                  !.spriteShiftsLo = Put(p.spriteShiftsLo, i, 0),
                                  !.spriteShiftsHi = Put(p.spriteShiftsHi, i, 0),
                                  !.spriteIndices = Put(p.spriteIndices, i, 255)], i + 1)
          ELSE EvalLoad([p EXCEPT !.spriteY = Put(p.spriteY, i, sy),
                                  !.spriteAttr = Put(p.spriteAttr, i, Get(p.secOAM, base + 2)),
                                  !.spriteX = Put(p.spriteX, i, Get(p.secOAM, base + 3)),
                                  !.spriteIndices = Put(p.spriteIndices, i, Get(p.secOAM, base + 1)),
                                  !.spriteShiftsLo = Put(p.spriteShiftsLo, i, 0),
                                  !.spriteShiftsHi = Put(p.spriteShiftsHi, i, 0)], i + 1)

\* a faulty evaluation that leaves out the clearing of secondary OAM
evaluateSprites_KeepsSecOAM(p) ==
  EvalLoad(EvalScan([p EXCEPT !.spriteCount = 0, !.spriteZeroInLine = FALSE], 0), 0)

\* PPU.evaluateSprites
evaluateSprites(p) ==
  EvalLoad(EvalScan([p EXCEPT !.spriteCount = 0, !.spriteZeroInLine = FALSE,
                              !.secOAM = Fill(32, 255)], 0), 0)

\* reverseByte
reverseByte(b) ==
  Bit(b, 0) * 128 + Bit(b, 1) * 64 + Bit(b, 2) * 32 + Bit(b, 3) * 16
  + Bit(b, 4) * 8 + Bit(b, 5) * 4 + Bit(b, 6) * 2 + Bit(b, 7)

\* the pattern address of the row of the sprite in slot i that falls on this scanline
SpritePatternAddr(p, i) ==
  LET row == p.scanline - Get(p.spriteY, i)
      tile0 == Get(p.spriteIndices, i)
      tall == SpriteHeight(p) = 16
      table == IF tall THEN tile0 % 2 ELSE Bit(p.ctrl, 3)
      tile == IF tall THEN (tile0 - (tile0 % 2)) + (IF row >= 8 THEN 1 ELSE 0) ELSE tile0
      fineY == IF tall /\ row >= 8 THEN row - 8 ELSE Low(row, 8)
      fy == IF Bit(Get(p.spriteAttr, i), 7) = 1 THEN 7 - fineY ELSE fineY
  IN (table * 4096) + (tile * 16) + fy

\* the horizontal flip of fetchSpritePatterns: the byte reversed when attr bit 6 is set
FlipH(p, i, b) == IF Bit(Get(p.spriteAttr, i), 6) = 1 THEN reverseByte(b) ELSE b

\* the two pattern bytes of slot i, <<lo, hi>>, or zeros for an empty slot
SpritePattern(s, i, addrLo) ==
  IF Get(s.ppu.spriteY, i) = 255 THEN <<0, 0>>
  ELSE <<FlipH(s.ppu, i, ppuRead(s, addrLo)), FlipH(s.ppu, i, ppuRead(s, addrLo + 8))>>

\* the assignments that end the loop body of fetchSpritePatterns
LoadSpriteShifts(s, i, pat) ==
  [s EXCEPT !.ppu.spriteShiftsLo = Put(s.ppu.spriteShiftsLo, i, pat[1]),
            !.ppu.spriteShiftsHi = Put(s.ppu.spriteShiftsHi, i, pat[2])]

RECURSIVE fetchSpritePatternsFrom(_, _)
\* the loop of fetchSpritePatterns, slots i..7
fetchSpritePatternsFrom(s, i) ==
  IF i > 7 THEN s
  ELSE fetchSpritePatternsFrom(
         LoadSpriteShifts(s, i, SpritePattern(s, i, SpritePatternAddr(s.ppu, i))), i + 1)

\* PPU.fetchSpritePatterns
fetchSpritePatterns(s) == fetchSpritePatternsFrom(s, 0)

RECURSIVE SpriteScan(_, _)
\* the slot loop of renderPixel: the first slot s..7 whose X counter is 0 and whose
\* top pattern bits are not both 0, as [px, slot], or px = 0 when there is none
SpriteScan(p, slot) ==
  IF slot > 7 THEN [px |-> 0, slot |-> 8]
  ELSE IF Get(p.spriteY, slot) # 255 /\ Get(p.spriteX, slot) = 0
          /\ Bit(Get(p.spriteShiftsHi, slot), 7) + Bit(Get(p.spriteShiftsLo, slot), 7) # 0
  THEN [px |-> Bit(Get(p.spriteShiftsHi, slot), 7) * 2
               + Bit(Get(p.spriteShiftsLo, slot), 7),
        slot |-> slot]
  ELSE SpriteScan(p, slot + 1)

\* the sprite pixel renderPixel finds (none when sprites are off)
SpritePixel(p) == IF Bit(p.mask, 4) = 1 THEN SpriteScan(p, 0) ELSE [px |-> 0, slot |-> 8]

\* the 2-bit background pixel renderPixel samples (0 when the background is off)
BgPixel(p) ==
  IF Bit(p.mask, 3) = 1
  THEN Bit(p.bgShiftHi, 15 - p.x) * 2 + Bit(p.bgShiftLo, 15 - p.x)
  ELSE 0

\* the background palette bits renderPixel samples, shifted into place
BgPalette(p) ==
  IF Bit(p.mask, 3) = 1
  THEN (Bit(p.attrShiftHi, 15 - p.x) * 2 + Bit(p.attrShiftLo, 15 - p.x)) * 4
  ELSE 0

\* the sprite-0 hit condition of renderPixel
SpriteZeroHit(p, spritePixel, bgPixel, slot, x) ==
  spritePixel # 0 /\ bgPixel # 0 /\ p.spriteZeroInLine /\ slot = 0 /\ x < 255

\* whether renderPixel shows the sprite pixel
SpriteShown(spritePixel, spritePriority, bgPixel) ==
  spritePixel # 0 /\ (spritePriority = 0 \/ bgPixel = 0)

\* the colour index renderPixel selects
ColorIndex(p, spritePixel, spritePal, spritePriority, bgPixel, bgPalette) ==
  IF SpriteShown(spritePixel, spritePriority, bgPixel)
  THEN Or(Or(16, spritePal), spritePixel % 4)
  ELSE IF bgPixel # 0 THEN Or(Or(16, bgPalette), bgPixel % 4)
  ELSE Low(Get(p.palette, 0), 64)

\* renderPixel from the sampled pixels on: the hit flag and the framebuffer cell
PutPixel(p, x, y, bgPixel, bgPalette, sp, attr) ==
  [p EXCEPT !.status = IF SpriteZeroHit(p, sp.px, bgPixel, sp.slot, x)
                       THEN Or(p.status, 64) ELSE p.status,
            !.fbIndex = y * 256 + x,
            !.fbPixel = paletteRGB(Low(ColorIndex(p, sp.px, ((attr % 4) + 4) * 4,
                                                  Bit(attr, 5), bgPixel, bgPalette), 64)),
            !.fbSprite = SpriteShown(sp.px, Bit(attr, 5), bgPixel)]

\* the attribute byte of the slot a sprite pixel came from
SlotAttr(p, sp) == Get(p.spriteAttr, sp.slot)

\* renderPixel with the sprite pixel found
RenderWith(p, x, y, sp) == PutPixel(p, x, y, BgPixel(p), BgPalette(p), sp, SlotAttr(p, sp))

\* PPU.renderPixel
renderPixel(p, x, y) == RenderWith(p, x, y, SpritePixel(p))

RECURSIVE ShiftSprites(_, _)
\* the sprite loop of stepShifters, slots i..7
ShiftSprites(p, i) ==
  IF i > 7 THEN p
  ELSE IF Get(p.spriteX, i) = 0
  THEN ShiftSprites(
         [p EXCEPT !.spriteShiftsLo = Put(p.spriteShiftsLo, i, Get(p.spriteShiftsLo, i) * 2),
                   !.spriteShiftsHi = Put(p.spriteShiftsHi, i, Get(p.spriteShiftsHi, i) * 2)],
         i + 1)
  ELSE ShiftSprites([p EXCEPT !.spriteX = Put(p.spriteX, i, Get(p.spriteX, i) - 1)], i + 1)

\* the background half of stepShifters
ShiftBackground(p) ==
  IF Bit(p.mask, 3) = 1
  THEN [p EXCEPT !.bgShiftLo = Low(p.bgShiftLo * 2, 65536),
                 !.bgShiftHi = Low(p.bgShiftHi * 2, 65536),
                 !.attrShiftLo = Low(p.attrShiftLo * 2, 65536),
                 !.attrShiftHi = Low(p.attrShiftHi * 2, 65536)]
  ELSE p

\* the sprite half of stepShifters
ShiftSpritesIfOn(p) == IF Bit(p.mask, 4) = 1 THEN ShiftSprites(p, 0) ELSE p

\* PPU.stepShifters
stepShifters(p) == ShiftSpritesIfOn(ShiftBackground(p))

RECURSIVE MarkEmpty(_, _)
\* the loop after fetchSpritePatterns at dot 257: spriteX = 0xFF in the empty slots
MarkEmpty(p, i) ==
  IF i > 7 THEN p
  ELSE IF Get(p.spriteY, i) = 255
  THEN MarkEmpty([p EXCEPT !.spriteX = Put(p.spriteX, i, 255)], i + 1)
  ELSE MarkEmpty(p, i + 1)

\* (mask & 0x18) !== 0
renderingEnabled(p) == And(p.mask, 24) # 0

\* step(), the pre-render clear: scanline 261 dot 1
StepClearFlags(p) ==
  IF p.scanline = 261 /\ p.cycle = 1
  THEN [p EXCEPT !.status = Clear(p.status, 224), !.spriteZeroInLine = FALSE]
  ELSE p

\* step(), dots 1..256: the background fetch the dot's place in the 8-dot sequence calls
StepFetch(s) ==
  CASE s.ppu.cycle % 8 = 1 -> fetchName(s)
    [] s.ppu.cycle % 8 = 3 -> fetchAttr(s)
    [] s.ppu.cycle % 8 = 5 -> fetchPatternLow(s)
    [] s.ppu.cycle % 8 = 7 -> fetchPatternHigh(s)
    [] s.ppu.cycle % 8 = 0 -> [s EXCEPT !.ppu = loadBGShiftRegisters(s.ppu)]
    [] OTHER -> s

\* step(), dots 1..256: the pixel, rendered or filled with the backdrop colour
StepPixel(p) ==
  IF renderingEnabled(p)
  THEN renderPixel(p, p.cycle - 1, p.scanline)
  ELSE [p EXCEPT !.fbIndex = p.scanline * 256 + p.cycle - 1,
                 !.fbPixel = paletteRGB(Low(Get(p.palette, 0), 64)),
                 !.fbSprite = FALSE]

\* step(), dots 1..256: coarse X after every eighth dot
StepCoarseX(p) == IF p.cycle % 8 = 0 THEN incCoarseX(p) ELSE p

\* step(), dots 1..256 from the pixel on
StepDraw(s) == [s EXCEPT !.ppu = StepCoarseX(stepShifters(StepPixel(s.ppu)))]

\* step(), dots 1..256 of a visible scanline: fetch, pixel, shift, coarse X
StepVisibleDot(s) == StepDraw(StepFetch(s))

\* the loop that ends the dot-257 block
MarkEmptySlots(s) == [s EXCEPT !.ppu = MarkEmpty(s.ppu, 0)]

\* step(), dot 257 of a visible scanline: copyX, sprite evaluation and fetch
StepSprites(s) ==
  MarkEmptySlots(fetchSpritePatterns([s EXCEPT !.ppu = evaluateSprites(copyX(s.ppu))]))

\* step(), the dot-257 and dot-256 blocks of a visible scanline
StepLineEnd(s) ==
  IF s.ppu.cycle = 257 /\ renderingEnabled(s.ppu) THEN StepSprites(s)
  ELSE IF s.ppu.cycle = 256 /\ renderingEnabled(s.ppu) THEN [s EXCEPT !.ppu = incY(s.ppu)]
  ELSE s

\* step(), the part for scanlines 0..239
StepVisible(s) ==
  IF s.ppu.scanline >= 0 /\ s.ppu.scanline <= 239
  THEN StepLineEnd(IF s.ppu.cycle >= 1 /\ s.ppu.cycle <= 256 THEN StepVisibleDot(s) ELSE s)
  ELSE s

\* step(), the pre-render copy of the vertical scroll bits
StepCopyY(p) ==
  IF p.scanline = 261 /\ p.cycle >= 280 /\ p.cycle <= 304 /\ renderingEnabled(p)
  THEN copyY(p)
  ELSE p

\* the dot at which step() enters VBlank
VBlankDot(p) == p.scanline = 241 /\ p.cycle = 1

\* a faulty VBlank entry that leaves out the test of the dot
StepVBlank_EveryDot(p) ==
  [p EXCEPT !.status = Or(p.status, 128), !.nmi = (Bit(p.ctrl, 7) = 1) \/ p.nmi]

\* step(), entering VBlank: status bit 7, and the NMI output when ctrl bit 7 is set
StepVBlank(p) ==
  IF VBlankDot(p)
  THEN [p EXCEPT !.status = Or(p.status, 128),
                 !.nmi = (Bit(p.ctrl, 7) = 1) \/ p.nmi]
  ELSE p

\* the last dot of a scanline and the last scanline of a frame
LastDot == 340

LastScanline == 261

\* a faulty advance of the counters that never counts the frame
StepAdvance_NoFrame(p) ==
  IF p.cycle + 1 > LastDot
  THEN IF p.scanline + 1 > LastScanline
       THEN [p EXCEPT !.cycle = 0, !.scanline = 0]
       ELSE [p EXCEPT !.cycle = 0, !.scanline = p.scanline + 1]
  ELSE [p EXCEPT !.cycle = p.cycle + 1]

\* step(), the counters: one dot on, wrapping into the next scanline and frame
StepAdvance(p) ==
  IF p.cycle + 1 > LastDot
  THEN IF p.scanline + 1 > LastScanline
       THEN [p EXCEPT !.cycle = 0, !.scanline = 0, !.frame = p.frame + 1]
       ELSE [p EXCEPT !.cycle = 0, !.scanline = p.scanline + 1]
  ELSE [p EXCEPT !.cycle = p.cycle + 1]

\* step() after the visible-scanline block: copyY, VBlank, the counters
StepTail(s) == [s EXCEPT !.ppu = StepAdvance(StepVBlank(StepCopyY(s.ppu)))]

\* PPU.step
PPU_step(s) == StepTail(StepVisible([s EXCEPT !.ppu = StepClearFlags(s.ppu)]))

\* the PPU a constructor call followed by connectCart(cart) leaves
PPU_new(mirror) ==
  [v |-> 0, t |-> 0, x |-> 0, w |-> 0, ctrl |-> 0, mask |-> 0, status |-> 0,
   oam |-> << >>, oamaddr |-> 0, secOAM |-> << >>, spriteCount |-> 0,
   spriteZeroInLine |-> FALSE, vram |-> << >>, palette |-> << >>, mirror |-> mirror,
   cycle |-> 0, scanline |-> 261, frame |-> 0, nmi |-> FALSE,
   nameTableByte |-> 0, attrTableByte |-> 0, patternLo |-> 0, patternHi |-> 0,
   bgShiftLo |-> 0, bgShiftHi |-> 0, attrShiftLo |-> 0, attrShiftHi |-> 0,
   bgLatchPal |-> 0,
   spriteShiftsLo |-> << >>, spriteShiftsHi |-> << >>, spriteX |-> << >>,
   spriteAttr |-> << >>, spriteY |-> << >>, spriteIndices |-> << >>,
   buffered |-> 0, fbIndex |-> 0, fbPixel |-> <<0, 0, 0>>, fbSprite |-> FALSE]

\* PPU.reset
PPU_reset(p) ==
  [p EXCEPT !.v = 0, !.t = 0, !.x = 0, !.w = 0, !.ctrl = 0, !.mask = 0, !.status = 0,
            !.oam = << >>, !.oamaddr = 0, !.secOAM = Fill(32, 255),
            !.scanline = 261, !.cycle = 0, !.frame = 0, !.nmi = FALSE, !.buffered = 0,
            !.bgShiftLo = 0, !.bgShiftHi = 0, !.attrShiftLo = 0, !.attrShiftHi = 0,
            !.nameTableByte = 0, !.attrTableByte = 0, !.patternLo = 0, !.patternHi = 0,
            !.spriteCount = 0, !.spriteZeroInLine = FALSE,
            !.spriteShiftsLo = << >>, !.spriteShiftsHi = << >>, !.spriteX = << >>,
            !.spriteAttr = << >>, !.spriteY = << >>, !.spriteIndices = << >>]

\* the CPU the constructor leaves
CPU_new ==
  [a |-> 0, x |-> 0, y |-> 0, sp |-> 253, p |-> 36, pc |-> 0, cycles |-> 0,
   stall |-> 0, addrMode |-> "null", pageCross |-> 0]


(***************************************************************************)
(* The machine as one record, and the ROM files of the model               *)
(***************************************************************************)

S == [cpu |-> cpu, ppu |-> ppu, ram |-> ram, cart |-> cart]

SetS(s) == cpu' = s.cpu /\ ppu' = s.ppu /\ ram' = s.ram /\ cart' = s.cart

\* An NROM image that turns NMI and rendering on and then runs through bytes that are
\* no opcode:  LDA #$80 / STA $2000 / LDA #$18 / STA $2001 / $80 $80 ...
\* NMI -> $8010, RESET -> $8000, IRQ -> $8000
PrgNmi ==
  [code |-> <<169, 128, 141, 0, 32, 169, 24, 141, 1, 32>>, fill |-> 128,
   vectors |-> <<16, 128, 0, 128, 0, 128>>]

\* The minimal program LDA #$42 / STA $0200 / JMP $8005, every vector -> $8000
PrgMinimal ==
  [code |-> <<169, 66, 141, 0, 2, 76, 5, 128>>, fill |-> 0,
   vectors |-> <<0, 128, 0, 128, 0, 128>>]

\* The wait loop of pong.asm (WaitVBlank: lda $2002 / bpl WaitVBlank), every
\* vector -> $8000, the rest NOP
PrgPoll ==
  [code |-> <<173, 2, 32, 16, 251>>, fill |-> 234,
   vectors |-> <<0, 128, 0, 128, 0, 128>>]

\* The PRG bank of buildBuiltInTestROM(): LDA #$80 / STA $2000 / LDA #$08 /
\* STA $2001 / LDA #$3F / STA $2000 / LDA #$00 / STA $2007 / JMP $8000, the rest
\* of the 16 KiB zero, the vectors included
PrgBuiltIn ==
  [code |-> <<169, 128, 141, 0, 32, 169, 8, 141, 1, 32, 169, 63, 141, 0, 32,
              169, 0, 141, 7, 32, 76, 0, 128>>,
   fill |-> 0, vectors |-> <<0, 0, 0, 0, 0, 0>>]

\* createNESFromROMBytes(bytes) on a file new Cartridge(bytes) accepts: the result of
\* the constructors, ppu.connectCart(cart) having copied the cartridge's mirroring
createNESFromROMBytes(b) ==
  LET c == Cartridge_parseINES(b) IN
  [cpu |-> CPU_new, ppu |-> PPU_new(c.mirror), ram |-> << >>, cart |-> c]

(***************************************************************************)
(* Orchestrator (nes.js): the host events and runLoop, one action per      *)
(* handler; runLoop is cut at its calls of cpu.step(), ppu.step() and      *)
(* cpu.nmi(), run.pos naming the call that comes next.                     *)
(***************************************************************************)

\* the watchdog of runLoop's while loop
MaxIter == 200000

\* how many animation-frame callbacks the model lets be pending at once
MaxPending == 2

\* how many times the model lets runLoop start its frame loop
MaxRuns == 2

\* The ROM files the model chooses: a 32 KiB NROM file of PrgNmi, the same file with
\* a wrong fourth byte, and a file of PrgPoll that declares 32 KiB of PRG and
\* 8 KiB of CHR and ends in the middle of its CHR
FileNmi ==
  [magic |-> Magic, prgBanks |-> 2, chrBanks |-> 1, flag6 |-> 0, flag7 |-> 0,
   prg |-> PrgNmi, body |-> 40960]

FileBadMagic == [FileNmi EXCEPT !.magic = <<78, 69, 83, 0>>]

FileTruncated == [FileNmi EXCEPT !.prg = PrgPoll, !.body = 36864]

RomFiles == {FileNmi, FileBadMagic, FileTruncated}

\* The file buildBuiltInTestROM() composes: one 16 KiB PRG bank, one 8 KiB CHR bank
\* of zeros
FileBuiltIn ==
  [magic |-> Magic, prgBanks |-> 1, chrBanks |-> 1, flag6 |-> 0, flag7 |-> 0,
   prg |-> PrgBuiltIn, body |-> 24576]

\* how many times the model lets a load replace the system
MaxLoads == 1

\* how many files the model lets be read at once
MaxReading == 1

\* how many cpu.step() calls the model lets runLoop make in all
MaxCpuSteps == 201000

\* loaded: nes is not null; enabled: the Run, Pause and Reset buttons are enabled;
\* loads: the systems built so far; reading: the chosen files whose arrayBuffer()
\* has not resolved yet; steps: the cpu.step() calls so far
RunIdle == [loaded |-> FALSE, enabled |-> FALSE, loads |-> 0, running |-> FALSE,
            pending |-> 0, pos |-> "idle", startFrame |-> 0, iter |-> 0, cyc |-> 0,
            i |-> 0, runs |-> 0, reading |-> << >>, steps |-> 0]

\* What an observer of the calls notes down: the last call (op) and the one before it
\* (prev), what cpu.step() returned, the ppu.step() calls and the cycle counter since
\* runLoop started, whether a while iteration has just ended, the dot the last
\* ppu.step() processed, and per PPU frame: the cpu.nmi() calls, whether ctrl bit 7
\* was set and mask was $18 at every ppu.step(), whether the frame began at a wrap;
\* last is that record for the frame that ended last.  Since the load: whether Reset
\* was clicked (reset), and what the first cpu.step() found: <<pc, sp, reset>> (first).
NoFrame == [nmis |-> 0, armed |-> FALSE, full |-> FALSE]

ObsInit == [op |-> "init", prev |-> "init", ret |-> 0, ppuSteps |-> 0, cycles0 |-> 0,
            iterEnd |-> FALSE, dot |-> <<-1, -1>>, nmiCount |-> 0, armed |-> TRUE,
            full |-> FALSE, last |-> NoFrame, reset |-> FALSE, first |-> << >>]

\* the observer's note of a call that is no ppu.step() and no cpu.nmi()
Note(op) == [obs EXCEPT !.op = op, !.prev = obs.op, !.iterEnd = FALSE]

\* the state before any ROM is loaded: nes = null, running = false
Init ==
  /\ run = RunIdle
  /\ obs = ObsInit
  /\ cpu = CPU_new
  /\ ppu = PPU_new("horizontal")
  /\ ram = << >>
  /\ cart = Cartridge_new(2, 1, 0, 0, PrgNmi)

\* what the observer notes of a load: the kind of file that was chosen
LoadNote(b) ==
  IF b.magic # Magic THEN "load (bad magic)"
  ELSE IF b.body < Declared(b) THEN "load (truncated)"
  ELSE "load"

\* the handler once new Cartridge(bytes) has thrown: the exception leaves the
\* handler before nes and the buttons are assigned (r is run as the handler found it)
LoadThrows(b, r) ==
  /\ obs' = Note(LoadNote(b))
  /\ run' = r
  /\ UNCHANGED <<cpu, ppu, ram, cart>>

\* nes = createNESFromROMBytes(bytes); btnRun.disabled = btnPause.disabled =
\* btnReset.disabled = false
LoadBuilds(b, r) ==
  /\ r.loads < MaxLoads
  /\ SetS(createNESFromROMBytes(b))
  /\ run' = [r EXCEPT !.loaded = TRUE, !.enabled = TRUE, !.loads = r.loads + 1]
  /\ obs' = [ObsInit EXCEPT !.op = LoadNote(b), !.prev = obs.op]

\* the files being read that new Cartridge(bytes) will accept
BuildsPending(r) ==
  Cardinality({k \in DOMAIN r.reading : ~Cartridge_throws(r.reading[k])})

\* romFile 'change' up to its await: f.arrayBuffer() is pending, and the handler
\* returns to the event loop with nothing else changed
ChooseRomFile ==
  /\ run.pos = "idle"
  /\ run.loads < MaxLoads
  /\ Len(run.reading) < MaxReading
  /\ \E b \in RomFiles :
       /\ IF Cartridge_throws(b) THEN TRUE
          ELSE run.loads + BuildsPending(run) < MaxLoads
       /\ run' = [run EXCEPT !.reading = Append(run.reading, b)]
  /\ obs' = Note("choose file")
  /\ UNCHANGED <<cpu, ppu, ram, cart>>

\* run without the k-th of the files being read
Resolved(r, k) ==
  [r EXCEPT !.reading = SubSeq(r.reading, 1, k - 1)
                          \o SubSeq(r.reading, k + 1, Len(r.reading))]

\* the rest of the romFile 'change' handler, run as a task of its own once
\* arrayBuffer() has resolved: createNESFromROMBytes(buf) and the buttons
RomFileRead ==
  /\ run.pos = "idle"
  /\ \E k \in DOMAIN run.reading :
       IF Cartridge_throws(run.reading[k])
       THEN LoadThrows(run.reading[k], Resolved(run, k))
       ELSE LoadBuilds(run.reading[k], Resolved(run, k))

\* btnUseBuilt 'click': createNESFromROMBytes(buildBuiltInTestROM()) and the buttons
ClickUseBuilt ==
  /\ run.pos = "idle"
  /\ run.loads + BuildsPending(run) < MaxLoads
  /\ LoadBuilds(FileBuiltIn, run)

\* the while condition of runLoop
LoopCondition(p, r) == p.frame = r.startFrame /\ r.iter < MaxIter

\* a faulty end of iteration that leaves iter as it is
EndIteration_NoCount(p, r) ==
  IF LoopCondition(p, r)
  THEN [r EXCEPT !.pos = "cpu"]
  ELSE [r EXCEPT !.pos = "idle", !.pending = r.pending + 1]

\* the end of one iteration of the while loop: iter++, then either the next
\* cpu.step() or the exit through requestAnimationFrame(runLoop)
EndIteration(p, r) ==
  LET r1 == [r EXCEPT !.iter = r.iter + 1] IN
  IF LoopCondition(p, r1)
  THEN [r1 EXCEPT !.pos = "cpu"]
  ELSE [r1 EXCEPT !.pos = "idle", !.pending = r.pending + 1]

\* the end of one iteration of the for loop: i++, then the next ppu.step() or
\* the end of the while iteration
EndTick(p, r) ==
  LET r1 == [r EXCEPT !.i = r.i + 1] IN
  IF JsLt(r1.i, JsMul(r1.cyc, 3)) THEN [r1 EXCEPT !.pos = "ppu"] ELSE EndIteration(p, r1)

\* runLoop up to its first cpu.step(): the guard and the loop set-up
EnterRunLoop(r) ==
  IF ~r.running \/ ~r.loaded THEN r
  ELSE LET r1 == [r EXCEPT !.startFrame = ppu.frame, !.iter = 0, !.runs = r.runs + 1] IN
       IF LoopCondition(ppu, r1) THEN [r1 EXCEPT !.pos = "cpu"]
       ELSE [r1 EXCEPT !.pending = r.pending + 1]

\* what the observer notes as runLoop starts
ObsEnter(r) ==
  IF r.pos = "cpu"
  THEN [Note("enter") EXCEPT !.ppuSteps = 0, !.cycles0 = cpu.cycles]
  ELSE Note("skip")

\* btnRun 'click'
ClickRun ==
  /\ run.pos = "idle"
  /\ run.enabled
  /\ run.loaded
  /\ run.pending < MaxPending
  /\ run.runs < MaxRuns
  /\ run' = EnterRunLoop([run EXCEPT !.running = TRUE])
  /\ obs' = ObsEnter(run')
  /\ UNCHANGED <<cpu, ppu, ram, cart>>

\* btnPause 'click'
ClickPause ==
  /\ run.pos = "idle"
  /\ run.enabled
  /\ run.running
  /\ run' = [run EXCEPT !.running = FALSE]
  /\ obs' = Note("pause")
  /\ UNCHANGED <<cpu, ppu, ram, cart>>

\* nes.ppu.reset() on the machine
ResetPpu(s) == [s EXCEPT !.ppu = PPU_reset(s.ppu)]

\* btnReset 'click': cpu.reset(), ppu.reset()
ClickReset ==
  /\ run.pos = "idle"
  /\ run.enabled
  /\ run.loaded
  /\ SetS(ResetPpu(CPU_reset(S)))
  /\ obs' = [Note("reset") EXCEPT !.nmiCount = 0, !.armed = TRUE, !.full = FALSE,
                                  !.dot = <<-1, -1>>, !.reset = TRUE]
  /\ UNCHANGED run

\* a pending requestAnimationFrame callback: runLoop()
AnimationFrame ==
  /\ run.pos = "idle"
  /\ run.pending > 0
  /\ run.runs < MaxRuns
  /\ run' = EnterRunLoop([run EXCEPT !.pending = run.pending - 1])
  /\ obs' = ObsEnter(run')
  /\ UNCHANGED <<cpu, ppu, ram, cart>>

\* runLoop once cpu.step() has returned r.v: cyc, and the for loop's first test
AfterCpuStep(r) ==
  /\ SetS(r.s)
  /\ run' = IF JsLt(0, JsMul(r.v, 3))
            THEN [run EXCEPT !.cyc = r.v, !.i = 0, !.pos = "ppu",
                             !.steps = run.steps + 1]
            ELSE EndIteration(r.s.ppu, [run EXCEPT !.cyc = r.v, !.i = 0,
                                                   !.steps = run.steps + 1])
  /\ obs' = [Note("cpu.step") EXCEPT
               !.ret = r.v, !.iterEnd = ~JsLt(0, JsMul(r.v, 3)),
               !.first = IF obs.first = << >> THEN <<cpu.pc, cpu.sp, obs.reset>>
                         ELSE obs.first]

\* runLoop: const cyc = nes.cpu.step()
LoopCpuStep ==
  /\ run.pos = "cpu"
  /\ run.steps < MaxCpuSteps
  /\ AfterCpuStep(CPU_step(S))

\* the observer's note of a ppu.step() that leaves the PPU as p
ObsPpuStep(p, ends) ==
  LET armedNow == obs.armed /\ Bit(ppu.ctrl, 7) = 1 /\ ppu.mask = 24
      o == [Note("ppu.step") EXCEPT !.ppuSteps = obs.ppuSteps + 1,
                                    !.dot = <<ppu.scanline, ppu.cycle>>,
                                    !.iterEnd = ends, !.armed = armedNow]
  IN IF p.frame # ppu.frame
     THEN [o EXCEPT !.last = [nmis |-> obs.nmiCount, armed |-> armedNow,
                              full |-> obs.full],
                    !.nmiCount = 0, !.armed = TRUE, !.full = TRUE]
     ELSE o

\* runLoop after nes.ppu.step(): the test of nes.ppu.nmi, r being run after it
AfterPpuStep(s, r) ==
  /\ SetS(s)
  /\ run' = r
  /\ obs' = ObsPpuStep(s.ppu, r.pos \in {"cpu", "idle"})

\* a faulty poll that calls cpu.nmi() without looking at ppu.nmi
PollNmi_Unconditional(p) == [run EXCEPT !.pos = "nmi"]

\* where runLoop goes once ppu.step() has left the PPU as p
PollNmi(p) == IF p.nmi THEN [run EXCEPT !.pos = "nmi"] ELSE EndTick(p, run)

\* runLoop: nes.ppu.step()
StepPpu(s) == AfterPpuStep(s, PollNmi(s.ppu))

LoopPpuStep ==
  /\ run.pos = "ppu"
  /\ StepPpu(PPU_step(S))

\* runLoop: nes.ppu.nmi = false after nes.cpu.nmi() has left the machine as s
ClearNmi(s) == [s EXCEPT !.ppu.nmi = FALSE]

AfterNmi(s, r) ==
  /\ SetS(s)
  /\ run' = r
  /\ obs' = [Note("cpu.nmi") EXCEPT !.nmiCount = obs.nmiCount + 1,
                                    !.iterEnd = r.pos \in {"cpu", "idle"}]

\* runLoop: nes.cpu.nmi(); nes.ppu.nmi = false
DeliverNmi(s) == AfterNmi(s, EndTick(s.ppu, run))

LoopNmi ==
  /\ run.pos = "nmi"
  /\ DeliverNmi(ClearNmi(CPU_nmi(S)))

Next ==
  \/ ChooseRomFile
  \/ RomFileRead
  \/ ClickUseBuilt
  \/ ClickRun
  \/ ClickPause
  \/ ClickReset
  \/ AnimationFrame
  \/ LoopCpuStep
  \/ LoopPpuStep
  \/ LoopNmi

Spec == Init /\ [][Next]_vars

(***************************************************************************)
(* Properties of runLoop (specification Spec)                              *)
(***************************************************************************)

\* C2: at the end of every iteration of runLoop's while loop, the number of
\* ppu.step() calls made since the loop started is 3 times the number of cycles
\* by which the CPU's cycle counter advanced since the loop started, the cycles
\* of cpu.step() and those of cpu.nmi() alike.
C2_PpuStepsAreThreePerCycle ==
  obs.iterEnd =>
    JsEq(obs.ppuSteps, JsMul(3, JsSub(cpu.cycles, obs.cycles0)))

\* C3: with ctrl bit 7 set and mask = $18 at every ppu.step() of a frame, runLoop
\* calls cpu.nmi() exactly once in that frame; every cpu.nmi() comes right after
\* the ppu.step() that processed scanline 241 dot 1; ppu.nmi is false whenever
\* the next call is a ppu.step() or a cpu.step().
C3_NmiOncePerFrame ==
  /\ obs.op = "cpu.nmi" => obs.prev = "ppu.step" /\ obs.dot = <<241, 1>>
  /\ run.pos \in {"ppu", "cpu", "idle"} => ~ppu.nmi
  /\ obs.armed => obs.nmiCount <= 1
  /\ obs.last.full /\ obs.last.armed => obs.last.nmis = 1

\* a frame that ran from wrap to wrap with NMI and rendering on has ended, and
\* cpu.nmi() was called once in it
C3_Witness ==
  /\ obs.op = "ppu.step"
  /\ obs.dot = <<261, 340>>
  /\ obs.last.full /\ obs.last.armed /\ obs.last.nmis = 1

(***************************************************************************)
(* The CPU called directly: reset(), step(), nmi(), irq() on a machine a   *)
(* ROM file has built (specification SpecCpu)                              *)
(***************************************************************************)

\* how many calls of the CPU the model makes on one machine
MaxCalls == 6

\* An NROM image whose three vectors differ: NMI -> $8010, RESET -> $8002,
\* IRQ -> $8020.  NOP / NOP / LDX #5 / LDA $80FE,X / BNE +2 / NOP / NOP / CLC /
\* ADC #1 / JMP $8002, the rest NOP
PrgVectors ==
  [code |-> <<234, 234, 162, 5, 189, 254, 128, 208, 2, 234, 234, 24, 105, 1,
              76, 2, 128>>,
   fill |-> 234, vectors |-> <<16, 128, 2, 128, 32, 128>>]

\* An NROM image for the cycle counts, NMI -> $8010, RESET -> $8000, IRQ -> $8020:
\* $8000  $02 (no opcode) / LDA #$02 / STA $4014 / BRK / NOP ...
\* $8010  LDX #$FF / STA $0201,X / LDA $8001,X / INC $0201,X / LDA $8000,X / NOP NOP
\* $8020  LDA #$01 / BNE +2 / NOP NOP / BEQ +16 / BNE -43 (to $7FFF), the rest NOP
PrgTiming ==
  [code |-> <<2, 169, 2, 141, 20, 64, 0, 234, 234, 234, 234, 234, 234, 234, 234, 234,
              162, 255, 157, 1, 2, 189, 1, 128, 254, 1, 2, 189, 0, 128, 234, 234,
              169, 1, 208, 2, 234, 234, 240, 16, 208, 213>>,
   fill |-> 234, vectors |-> <<16, 128, 0, 128, 32, 128>>]

\* An NROM image whose interrupt handler returns at once, NMI -> $8010,
\* RESET -> $8000, IRQ -> $8010:  $8000  CLI / SEC / NOP ...   $8010  RTI
PrgRti ==
  [code |-> <<88, 56, 234, 234, 234, 234, 234, 234, 234, 234, 234, 234, 234, 234, 234,
              234, 64>>,
   fill |-> 234, vectors |-> <<16, 128, 0, 128, 16, 128>>]

\* An NROM image that starts at the last byte of the address space: NMI -> $8010,
\* RESET -> $FFFF, IRQ -> $EA00, so that the byte at $FFFF is $EA (NOP); all NOP
PrgWrap ==
  [code |-> <<234>>, fill |-> 234, vectors |-> <<16, 128, 255, 255, 0, 234>>]

\* the ROM files of SpecCpu: PRG banks and image (mapper 0, one CHR bank)
CpuRoms ==
  {<<1, PrgMinimal>>, <<2, PrgMinimal>>, <<2, PrgVectors>>, <<2, PrgTiming>>,
   <<2, PrgRti>>, <<2, PrgWrap>>}

\* What an observer of the CPU calls notes down: the call, what it returned, the
\* CPU and the RAM before it, the bytes the bus held at $FFFC/$FFFD and at pc
\* before it, and
\* the step() calls since the last reset() (-1 once nmi() or irq() came between,
\* or before any reset())
ObsCpu(op, ret, steps) ==
  [op |-> op, ret |-> ret, before |-> cpu, ram |-> ram,
   lo |-> Bus_cpuRead(S, 65532).v, hi |-> Bus_cpuRead(S, 65533).v,
   opcode |-> Bus_cpuRead(S, cpu.pc).v, steps |-> steps]

InitCpu ==
  /\ \E rom \in CpuRoms :
       /\ cart = Cartridge_new(rom[1], 1, 0, 0, rom[2])
       /\ ppu = PPU_new(cart.mirror)
  /\ cpu = CPU_new
  /\ ram = << >>
  /\ run = [calls |-> 0]
  /\ obs = [op |-> "init", ret |-> 0, before |-> CPU_new, ram |-> << >>,
            lo |-> 0, hi |-> 0,
            opcode |-> -1, steps |-> -1]

\* the machine and the notes after a call that left the machine as s
AfterCall(s, op, ret, steps) ==
  /\ SetS(s)
  /\ run' = [run EXCEPT !.calls = run.calls + 1]
  /\ obs' = ObsCpu(op, ret, steps)

\* cpu.reset()
CallReset ==
  /\ run.calls < MaxCalls
  /\ AfterCall(CPU_reset(S), "cpu.reset", 0, 0)

AfterStep(r) ==
  AfterCall(r.s, "cpu.step", r.v, IF obs.steps >= 0 THEN obs.steps + 1 ELSE -1)

\* cpu.step()
CallStep ==
  /\ run.calls < MaxCalls
  /\ AfterStep(CPU_step(S))

\* cpu.nmi()
CallNmi ==
  /\ run.calls < MaxCalls
  /\ AfterCall(CPU_nmi(S), "cpu.nmi", 0, -1)

\* cpu.irq()
CallIrq ==
  /\ run.calls < MaxCalls
  /\ AfterCall(CPU_irq(S), "cpu.irq", 0, -1)

NextCpu ==
  \/ CallReset
  \/ CallStep
  \/ CallNmi
  \/ CallIrq

SpecCpu == InitCpu /\ [][NextCpu]_vars

\* C1: a step() on an opcode of the table returns a positive integer, the
\* opcode's base cycle count plus its penalties (at most two), and the cycle
\* counter advances by what step() returned; LDA #imm, STA abs and JMP abs
\* return 2, 4 and 3.
C1_StepReturnsCycles ==
  (obs.op = "cpu.step" /\ obs.opcode \in DOMAIN OPCODES) =>
    /\ IsNum(obs.ret)
    /\ obs.ret > 0
    /\ obs.ret >= OPCODES[obs.opcode].cyc
    /\ obs.ret <= OPCODES[obs.opcode].cyc + 2
    /\ JsEq(JsSub(cpu.cycles, obs.before.cycles), obs.ret)
    /\ obs.opcode = 169 => obs.ret = 2
    /\ obs.opcode = 141 => obs.ret = 4
    /\ obs.opcode = 76 => obs.ret = 3

\* C4: after reset(), whatever the CPU was before, pc is the little-endian word
\* of the bytes the bus holds at $FFFC/$FFFD, sp is $FD, p is $24 and the cycle
\* counter stands at 7.
C4_ResetState ==
  obs.op = "cpu.reset" =>
    /\ cpu.pc = Word(obs.lo, obs.hi)
    /\ cpu.sp = 253
    /\ cpu.p = 36
    /\ cpu.cycles = 7

\* a reset() of a CPU whose sp, p and pc were not the reset values, on the image
\* whose reset vector is $8002
C4_Witness ==
  /\ obs.op = "cpu.reset"
  /\ obs.before.sp # 253
  /\ obs.before.p # 36
  /\ obs.before.pc # 32770
  /\ obs.lo = 2 /\ obs.hi = 128
  /\ cpu.pc = 32770

\* C5: on the image A9 42 8D 00 02 4C 05 80 (mapper 0, reset vector $8000), after
\* reset() and three or more step() calls RAM[$0200] is $42, A is $42 and pc
\* is $8005.
C5_MinimalProgram ==
  (cart.prg = PrgMinimal /\ obs.steps >= 3) =>
    /\ Get(ram, 512) = 66
    /\ cpu.a = 66
    /\ cpu.pc = 32773

(***************************************************************************)
(* The Bus called directly: cpuWrite and cpuRead on a machine the minimal  *)
(* ROM has built (specification SpecBus)                                   *)
(***************************************************************************)

\* how many calls of the Bus the model makes on one machine
MaxBusCalls == 3

\* the addresses of the calls: RAM and its mirrors ($0000, $0001, $0234, $07FF,
\* $0800, $0FFF, $1234, $1800, $1FFF), cartridge RAM ($6000) and PRG ROM ($8000,
\* $C000, $FFFF)
BusAddrs == {0, 1, 564, 2047, 2048, 4095, 4660, 6144, 8191, 24576, 32768, 49152, 65535}

\* the bytes written
BusBytes == {0, 1, 66, 255}

\* What an observer of the Bus calls notes down: the last call, its address, what
\* the last cpuRead returned, and of the last cpuWrite the address (-1 before any),
\* the byte and the RAM before it
InitBus ==
  /\ \E banks \in {1, 2} : cart = Cartridge_new(banks, 1, 0, 0, PrgMinimal)
  /\ ppu = PPU_new(cart.mirror)
  /\ cpu = CPU_new
  /\ ram = << >>
  /\ run = [calls |-> 0]
  /\ obs = [op |-> "init", addr |-> -1, ret |-> 0, waddr |-> -1, val |-> 0,
            before |-> << >>]

\* bus.cpuWrite(a, v)
CallCpuWrite ==
  /\ run.calls < MaxBusCalls
  /\ \E a \in BusAddrs, v \in BusBytes :
       /\ SetS(Bus_cpuWrite(S, a, v))
       /\ obs' = [obs EXCEPT !.op = "cpuWrite", !.addr = a, !.waddr = a, !.val = v,
                             !.before = ram]
  /\ run' = [run EXCEPT !.calls = run.calls + 1]

AfterCpuRead(r, a) ==
  /\ SetS(r.s)
  /\ obs' = [obs EXCEPT !.op = "cpuRead", !.addr = a, !.ret = r.v]

\* bus.cpuRead(a)
CallCpuRead ==
  /\ run.calls < MaxBusCalls
  /\ \E a \in BusAddrs : AfterCpuRead(Bus_cpuRead(S, a), a)
  /\ run' = [run EXCEPT !.calls = run.calls + 1]

NextBus ==
  \/ CallCpuWrite
  \/ CallCpuRead

SpecBus == InitBus /\ [][NextBus]_vars

\* C6: once cpuWrite(a, v) has written to an address a in $0000-$1FFF, cpuRead
\* returns v at each of the four mirrors (a & 0x07FF) + 0, $800, $1000, $1800 (in
\* the state after the write, and in a cpuRead call that follows it), and every
\* RAM cell outside that mirror set is as it was before the write.
C6_RamMirrors ==
  (obs.waddr >= 0 /\ obs.waddr < 8192) =>
    /\ \A k \in 0..3 : Bus_cpuRead(S, (obs.waddr % 2048) + k * 2048).v = obs.val
    /\ \A i \in 0..2047 :
         i # obs.waddr % 2048 => Get(ram, i) = Get(obs.before, i)
    /\ (obs.op = "cpuRead" /\ obs.addr < 8192
          /\ obs.addr % 2048 = obs.waddr % 2048) => obs.ret = obs.val

\* $FF written at $1234 after another cell was written, and read back at the
\* mirror $0234
C6_Witness ==
  /\ obs.op = "cpuRead"
  /\ obs.waddr = 4660
  /\ obs.addr = 564
  /\ obs.val = 255
  /\ obs.ret = 255
  /\ obs.before # << >>

\* C39: cpuRead returns a byte at every address of $0000-$1FFF and $6000-$FFFF.
C39_ReadsAreBytes ==
  (obs.op = "cpuRead" /\ (obs.addr < 8192 \/ obs.addr >= 24576)) =>
    obs.ret \in 0..255

\* cpuRead returns a byte wherever the address minus $8000 is inside the PRG array,
\* and undefined at every PRG address past it
ReadsAsCoded ==
  (obs.op = "cpuRead" /\ (obs.addr < 8192 \/ obs.addr >= 24576)) =>
    IF obs.addr >= 32768 /\ obs.addr - 32768 >= cart.prgLen
    THEN obs.ret = Undefined
    ELSE obs.ret \in 0..255

\* cpuRead($C000) on a cartridge with one 16 KiB PRG bank has returned undefined
ReadPastPrg ==
  /\ obs.op = "cpuRead" /\ obs.addr = 49152
  /\ cart.prgLen = 16384
  /\ obs.ret = Undefined

(***************************************************************************)
(* The PPU called directly: step(), reset() and writes of $2000/$2001 on   *)
(* a machine the minimal ROM has built (specification SpecPpu)             *)
(***************************************************************************)

\* the frame count at which the model stops calling step()
MaxFrame == 2

\* how many reset() calls the model makes on one machine
MaxResets == 1

\* how many step() calls the model makes after a reset()
MaxAfterReset == 400

\* the dots (scanline, cycle) before which the model calls reset()
ResetDots ==
  {<<261, 1>>, <<261, 340>>, <<0, 0>>, <<0, 1>>, <<100, 128>>, <<239, 257>>,
   <<241, 1>>, <<241, 2>>, <<260, 340>>}

\* the dots before which the model writes a register, and the writes: ctrl = 0,
\* ctrl = $80 (NMI on), mask = $18 (rendering on)
WriteDots == {<<261, 0>>, <<241, 1>>}

RegWrites == {<<8192, 0>>, <<8192, 128>>, <<8193, 24>>}

\* the place of the PPU and what the VBlank claims look at, before a call
Place(p) ==
  [scanline |-> p.scanline, cycle |-> p.cycle, frame |-> p.frame,
   status |-> p.status, nmi |-> p.nmi, ctrl |-> p.ctrl]

\* What an observer of the PPU calls notes down: the last call, the PPU's place
\* before it, the step() calls since the last frame wrap (-1 before the first wrap
\* after construction or reset()), and at a wrap the step() calls from the wrap
\* before to this one (-1 when there was none)
InitPpu ==
  /\ cart = Cartridge_new(2, 1, 0, 0, PrgMinimal)
  /\ ppu = PPU_new(cart.mirror)
  /\ cpu = CPU_new
  /\ ram = << >>
  /\ run = [resets |-> 0, since |-> 0]
  /\ obs = [op |-> "init", before |-> Place(ppu), dots |-> -1, period |-> -1]

\* the observer's note of a step() that leaves the PPU as p
ObsStep(p) ==
  IF p.frame # ppu.frame
  THEN [op |-> "ppu.step", before |-> Place(ppu), dots |-> 0,
        period |-> IF obs.dots >= 0 THEN obs.dots + 1 ELSE -1]
  ELSE [op |-> "ppu.step", before |-> Place(ppu),
        dots |-> IF obs.dots >= 0 THEN obs.dots + 1 ELSE -1, period |-> -1]

AfterPpuCall(s) ==
  /\ SetS(s)
  /\ obs' = ObsStep(s.ppu)

\* ppu.step()
CallStepPpu ==
  /\ ppu.frame < MaxFrame
  /\ IF run.resets = 0 THEN TRUE ELSE run.since < MaxAfterReset
  /\ AfterPpuCall(PPU_step(S))
  /\ run' = [run EXCEPT !.since = IF run.resets = 0 THEN 0 ELSE run.since + 1]

\* ppu.reset()
CallResetPpu ==
  /\ run.resets < MaxResets
  /\ <<ppu.scanline, ppu.cycle>> \in ResetDots
  /\ SetS(ResetPpu(S))
  /\ obs' = [op |-> "ppu.reset", before |-> Place(ppu), dots |-> -1, period |-> -1]
  /\ run' = [resets |-> run.resets + 1, since |-> 0]

\* bus.cpuWrite($2000, v) and bus.cpuWrite($2001, v)
CallWritePpu ==
  /\ <<ppu.scanline, ppu.cycle>> \in WriteDots
  /\ ppu.frame < MaxFrame
  /\ \E w \in RegWrites : SetS(Bus_cpuWrite(S, w[1], w[2]))
  /\ obs' = [obs EXCEPT !.op = "write", !.before = Place(ppu)]
  /\ UNCHANGED run

NextPpu ==
  \/ CallStepPpu
  \/ CallResetPpu
  \/ CallWritePpu

SpecPpu == InitPpu /\ [][NextPpu]_vars

\* the dot after (scanline, cycle)
NextDot(scanline, cycle) ==
  IF cycle < 340 THEN <<scanline, cycle + 1>>
  ELSE IF scanline < 261 THEN <<scanline + 1, 0>>
  ELSE <<0, 0>>

\* C7: after any step() and reset() calls cycle is in 0..340 and scanline in
\* 0..261; a step() moves (scanline, cycle) on by one dot, dot 340 wrapping to dot
\* 0 of the next scanline and scanline 261 to scanline 0; frame goes up by one at
\* that last wrap and stays at every other step; from one such wrap to the next
\* there are 341 * 262 step() calls.
C7_DotCounters ==
  /\ ppu.cycle \in 0..340
  /\ ppu.scanline \in 0..261
  /\ obs.op = "ppu.step" =>
       /\ <<ppu.scanline, ppu.cycle>> = NextDot(obs.before.scanline, obs.before.cycle)
       /\ ppu.frame = obs.before.frame
                        + (IF obs.before.scanline = 261 /\ obs.before.cycle = 340
                           THEN 1 ELSE 0)
       /\ obs.period \in {-1, 341 * 262}

\* the step() at scanline 261 dot 340 that ends a whole frame
C7_Witness ==
  /\ obs.op = "ppu.step"
  /\ obs.before.scanline = 261 /\ obs.before.cycle = 340
  /\ ppu.scanline = 0 /\ ppu.cycle = 0
  /\ ppu.frame = obs.before.frame + 1
  /\ obs.period = 341 * 262

\* C8: the step() that processes scanline 241 dot 1 sets status bit 7 and no
\* other step() sets it; that step() makes ppu.nmi true if and only if ctrl bit 7
\* is set then, and no other step() makes ppu.nmi true.
C8_VBlankAtDot ==
  obs.op = "ppu.step" =>
    IF obs.before.scanline = 241 /\ obs.before.cycle = 1
    THEN /\ Bit(ppu.status, 7) = 1
         /\ ~obs.before.nmi => (ppu.nmi <=> Bit(obs.before.ctrl, 7) = 1)
    ELSE /\ Bit(ppu.status, 7) = 1 => Bit(obs.before.status, 7) = 1
         /\ ppu.nmi => obs.before.nmi

\* the step() at scanline 241 dot 1 with ctrl bit 7 set: VBlank and the NMI
\* output come on
C8_Witness ==
  /\ obs.op = "ppu.step"
  /\ obs.before.scanline = 241 /\ obs.before.cycle = 1
  /\ Bit(obs.before.status, 7) = 0 /\ ~obs.before.nmi
  /\ Bit(obs.before.ctrl, 7) = 1
  /\ Bit(ppu.status, 7) = 1 /\ ppu.nmi

(***************************************************************************)
(* The PPU registers through the Bus: reads and writes of $2000-$3FFF and  *)
(* the $2006/$2007 round trip, the PPU not stepping (specification SpecReg)*)
(***************************************************************************)

\* how many register accesses and round trips the model makes on one machine
MaxAccesses == 3

\* the status the frame loop has left when the accesses begin: nothing, VBlank,
\* VBlank with sprite overflow and sprite-0 hit
StatusSamples == {0, 128, 224}

\* the addresses read: $2002 and its mirrors $200A and $3FFA, $2004, $2007
ReadAddrs == {8194, 8202, 16378, 8196, 8199}

\* the writes: ctrl = 4 (increment 32), $2005 = $7D, $2006 = $3F, $2006 = $21,
\* $2007 = $5A, $2003 = 8, $2004 = $C3
WriteSamples ==
  {<<8192, 4>>, <<8197, 125>>, <<8198, 63>>, <<8198, 33>>, <<8199, 90>>,
   <<8195, 8>>, <<8196, 195>>}

\* the addresses of the round trip: nametables ($2000, $2001, $2C05, $3EDF,
\* $3EFE, $3EFF) and palette ($3F00, $3F10, $3FFF)
VramAddrs == {8192, 8193, 11269, 16095, 16126, 16127, 16128, 16144, 16383}

\* the bytes of the round trip
VramBytes == {0, 90, 255}

\* two $2006 writes: the high byte of A, the low byte of A
SetV(s, A) == Bus_cpuWrite(Bus_cpuWrite(s, 8198, A \div 256), 8198, A % 256)

\* the read of $2007 that gives the byte at v back: the second of two reads below
\* $3F00 (the first one returns the read buffer), the first one from $3F00 on
ReadBack(s, A) ==
  IF A < 16128 THEN Bus_cpuRead(Bus_cpuRead(s, 8199).s, 8199)
  ELSE Bus_cpuRead(s, 8199)

\* v = A, $2007 = b, v = A, read $2007
RoundTrip(s, A, b) == ReadBack(SetV(Bus_cpuWrite(SetV(s, A), 8199, b), A), A)

\* What an observer of the accesses notes down: the access, its address and byte,
\* what it returned, the PPU before it, and the parity of the writes to $2005 and
\* $2006 since the last read of $2002 or the last reset()
InitReg ==
  /\ \E flag6 \in {0, 1} : cart = Cartridge_new(2, 1, flag6, 0, PrgMinimal)
  /\ \E st \in StatusSamples : ppu = [PPU_new(cart.mirror) EXCEPT !.status = st]
  /\ cpu = CPU_new
  /\ ram = << >>
  /\ run = [calls |-> 0]
  /\ obs = [op |-> "init", addr |-> -1, val |-> 0, ret |-> 0, before |-> ppu,
            parity |-> 0]

\* the parity after a call: a round trip makes four writes to $2006
ParityAfter(op, a) ==
  IF op = "ppu.reset" THEN 0
  ELSE IF op = "cpuRead" /\ a % 8 = 2 THEN 0
  ELSE IF op = "cpuWrite" /\ a % 8 \in {5, 6} THEN 1 - obs.parity
  ELSE obs.parity

AfterAccess(r, op, a, b) ==
  /\ SetS(r.s)
  /\ obs' = [op |-> op, addr |-> a, val |-> b, ret |-> r.v, before |-> ppu,
             parity |-> ParityAfter(op, a)]
  /\ run' = [run EXCEPT !.calls = run.calls + 1]

\* bus.cpuRead(a), a a PPU register
ReadRegister ==
  /\ run.calls < MaxAccesses
  /\ \E a \in ReadAddrs : AfterAccess(Bus_cpuRead(S, a), "cpuRead", a, 0)

\* bus.cpuWrite(a, b), a a PPU register
WriteRegisterCall ==
  /\ run.calls < MaxAccesses
  /\ \E w \in WriteSamples :
       AfterAccess([s |-> Bus_cpuWrite(S, w[1], w[2]), v |-> 0], "cpuWrite", w[1], w[2])

\* the round trip at A with the byte b
DoRoundTrip ==
  /\ run.calls < MaxAccesses
  /\ \E A \in VramAddrs, b \in VramBytes :
       AfterAccess(RoundTrip(S, A, b), "roundTrip", A, b)

\* ppu.step() between two accesses
StepBetween ==
  /\ run.calls < MaxAccesses
  /\ AfterAccess([s |-> PPU_step(S), v |-> 0], "ppu.step", -1, 0)

\* ppu.reset() between two accesses
ResetBetween ==
  /\ run.calls < MaxAccesses
  /\ AfterAccess([s |-> ResetPpu(S), v |-> 0], "ppu.reset", -1, 0)

NextReg ==
  \/ ReadRegister
  \/ WriteRegisterCall
  \/ DoRoundTrip
  \/ StepBetween
  \/ ResetBetween

SpecReg == InitReg /\ [][NextReg]_vars

\* C9: a CPU read of $2002 or of a mirror of it (low address bits 010) returns
\* status bits 7..5 in its top three bits; after it status bit 7 is clear and the
\* write toggle w is 0, and status bits 6 and 5, v, t, x, the read buffer, OAM,
\* VRAM and palette are as before.
C9_StatusRead ==
  (obs.op = "cpuRead" /\ obs.addr >= 8192 /\ obs.addr < 16384 /\ obs.addr % 8 = 2) =>
    /\ obs.ret \div 32 = obs.before.status \div 32
    /\ Bit(ppu.status, 7) = 0
    /\ ppu.w = 0
    /\ Bit(ppu.status, 6) = Bit(obs.before.status, 6)
    /\ Bit(ppu.status, 5) = Bit(obs.before.status, 5)
    /\ ppu.v = obs.before.v /\ ppu.t = obs.before.t /\ ppu.x = obs.before.x
    /\ ppu.buffered = obs.before.buffered
    /\ ppu.oam = obs.before.oam
    /\ ppu.vram = obs.before.vram
    /\ ppu.palette = obs.before.palette

\* a read of the mirror $3FFA with VBlank, sprite-0 hit and overflow set and the
\* write toggle at 1, after VRAM and OAM were written
C9_Witness ==
  /\ obs.op = "cpuRead"
  /\ obs.addr = 16378
  /\ obs.before.status = 224
  /\ obs.before.w = 1
  /\ obs.before.vram # << >>
  /\ obs.ret \div 32 = 7
  /\ ppu.status = 96
  /\ ppu.w = 0

\* C10 as stated: from a state whose write toggle is clear, the round trip at an
\* address A of the nametable or palette region returns the byte b it wrote.
C10_RoundTripReturnsByte ==
  (obs.op = "roundTrip" /\ obs.before.w = 0) => obs.ret = obs.val

\* the increment of v a $2007 access makes, by ctrl bit 2
Increment(p) == IF Bit(p.ctrl, 2) = 1 THEN 32 ELSE 1

\* C10 amended: from a state whose write toggle is clear, the round trip returns b
\* at a nametable address A whose successor A + increment (1 or 32 by ctrl bit 2)
\* is below $3F00, and the low six bits of b at a palette address ($3F00-$3FFF).
C10_RoundTripAmended ==
  (obs.op = "roundTrip" /\ obs.before.w = 0) =>
    /\ obs.addr >= 16128 => obs.ret = obs.val % 64
    /\ obs.addr + Increment(obs.before) < 16128 => obs.ret = obs.val

\* the round trips of $FF: at the nametable address $2C05 it returns $FF, at
\* the palette address $3F10 it returns $3F
C10_Witness ==
  /\ obs.op = "roundTrip"
  /\ obs.before.w = 0
  /\ obs.addr = 16144
  /\ obs.val = 255
  /\ obs.ret = 63
  /\ Get(ppu.palette, 0) = 63

\* the machine as it was before the last access of the PPU registers
Before == [S EXCEPT !.ppu = obs.before]

\* C11: a CPU read of $2007 with v < $3F00 returns what the read buffer held and
\* refills the buffer with ppuRead(v); with v in $3F00-$3FFF it returns the palette
\* byte ppuRead(v) and refills the buffer with ppuRead(v - $1000); after such a read
\* and after every $2007 write v has gone up by 1 (ctrl bit 2 clear) or by 32 (ctrl
\* bit 2 set), within 15 bits.
C11_DataPort ==
  (obs.op \in {"cpuRead", "cpuWrite"} /\ obs.addr = 8199) =>
    /\ ppu.v = (obs.before.v + Increment(obs.before)) % 32768
    /\ ppu.v \in 0..32767
    /\ (obs.op = "cpuRead" /\ obs.before.v < 16128) =>
         /\ obs.ret = obs.before.buffered
         /\ ppu.buffered = ppuRead(Before, obs.before.v)
    /\ (obs.op = "cpuRead" /\ obs.before.v >= 16128 /\ obs.before.v <= 16383) =>
         /\ obs.ret = ppuRead(Before, obs.before.v)
         /\ ppu.buffered = ppuRead(Before, obs.before.v - 4096)

\* a read of $2007 with v at the palette alias $3F30 and the increment at 32: it
\* returns the palette byte $3F written before and moves v to $3F50
C11_Witness ==
  /\ obs.op = "cpuRead"
  /\ obs.addr = 8199
  /\ obs.before.v = 16176
  /\ Bit(obs.before.ctrl, 2) = 1
  /\ obs.ret = 63
  /\ ppu.v = 16208

\* the byte the last access left on the PPU data bus: the byte written, or the byte
\* the read returned
DataBus(o) == IF o.op = "cpuWrite" THEN o.val ELSE o.ret

\* C26: the low five bits of what a read of $2002 (or of a mirror of it) returns are
\* the low five bits of the byte the access before it wrote to or read from a PPU
\* register.
C26_StatusLowBits ==
  [][(obs.op \in {"cpuRead", "cpuWrite", "roundTrip"}
        /\ obs'.op = "cpuRead" /\ obs'.addr % 8 = 2) =>
       And(obs'.ret, 31) = And(DataBus(obs), 31)]_vars

\* the low five bits of a $2002 read are those of the $2007 read buffer
StatusLowBitsAsCoded ==
  (obs.op = "cpuRead" /\ obs.addr % 8 = 2) =>
    And(obs.ret, 31) = And(obs.before.buffered, 31)

\* $2002 read after $5A went through $2007 into the read buffer and $3F was the
\* last byte on the bus: the low five bits are those of $5A
StatusLowBitsRead ==
  /\ obs.op = "cpuRead" /\ obs.addr = 8194
  /\ obs.before.buffered = 90
  /\ And(obs.ret, 31) = 26

\* C37: the write toggle w is 0 or 1 and is the parity of the writes to $2005 and
\* $2006 since the last read of $2002 or the last reset(), whatever step() calls
\* came between; a register access changes v only if it is a $2006 write made with
\* w = 1, after which v = t, or an access of $2007.
C37_WriteToggle ==
  /\ ppu.w \in {0, 1}
  /\ ppu.w = obs.parity
  /\ (obs.op = "cpuWrite" /\ obs.addr % 8 = 6 /\ obs.before.w = 1) => ppu.v = ppu.t
  /\ (obs.op \in {"cpuRead", "cpuWrite"} /\ ppu.v # obs.before.v) =>
       \/ obs.op = "cpuWrite" /\ obs.addr % 8 = 6 /\ obs.before.w = 1
       \/ obs.addr % 8 = 7
  /\ obs.op = "ppu.step" => ppu.w = obs.before.w

\* the second of two $2006 writes, a step() having come between them: the toggle is
\* back at 0 and v has become t = $3F21
C37_Witness ==
  /\ obs.op = "cpuWrite" /\ obs.addr = 8198 /\ obs.val = 33
  /\ obs.before.w = 1 /\ obs.before.t = 16128 /\ obs.before.v = 0
  /\ obs.before.cycle = 1
  /\ ppu.w = 0 /\ ppu.v = 16161

(***************************************************************************)
(* PPU memory called directly: ppuWrite and ppuRead on a PPU in each of    *)
(* the mirroring modes, prgWrite and prgRead on the cartridge's mapper     *)
(* (specification SpecMem)                                                 *)
(***************************************************************************)

\* how many calls of ppuWrite / ppuRead / prgWrite / prgRead the model makes on one
\* machine
MaxMemCalls == 2

\* the values PPU.mirror is compared with (ntIndex) or that the cartridge and the
\* mappers store in cart.mirror (parseINES, Mapper1.writeReg)
Modes == {"horizontal", "vertical", "single0", "single1"}

\* the addresses of the calls: pattern tables $0000, $0005, $1000, $1FFF; the four
\* logical nametables
\* $2000, $2400, $2800, $2C05, $2FFF and their aliases $3000, $3400, $3805, $3EFF;
\* palette $3F00, $3F01, $3F04, $3F10, $3F14, $3F1F and its aliases $3F20, $3F30, $3FFF
MemAddrs ==
  {0, 5, 4096, 8191, 8192, 9216, 10240, 11269, 12287, 12288, 13312, 14341, 16127,
   16128, 16129, 16132, 16144, 16148, 16159, 16160, 16176, 16383}

\* the bytes written
MemBytes == {10, 23, 255}

\* the addresses of the mapper calls: $8000, $C000 and the reset vector $FFFC
PrgAddrs == {32768, 49152, 65532}

\* the bytes written to the mapper: bank 1, bank 2, and a value wider than the
\* bank registers of mappers 2 and 3
PrgBytes == {1, 2, 21}

RECURSIVE Mapper1_load(_, _, _, _)
\* the five writes of mapper.prgWrite that shift the low five bits of data into the
\* Mapper1 register addr selects, bit 0 first
Mapper1_load(c, addr, data, k) ==
  IF k = 5 THEN c
  ELSE Mapper1_load(Mapper1_prgWrite(c, addr, Bit(data, k)), addr, data, k + 1)

\* a CHR RAM cartridge of mapper 1, and a mapper 3 file that ends in the middle of
\* its 8 KiB of CHR
CartMapper1 == Cartridge_new(2, 0, 16, 0, PrgMinimal)

FileMapper3 ==
  [magic |-> Magic, prgBanks |-> 2, chrBanks |-> 1, flag6 |-> 48, flag7 |-> 0,
   prg |-> PrgMinimal, body |-> 36864]

\* the cartridges of the calls: NROM with horizontal and vertical mirroring;
\* mapper 1 as constructed, with chrBank0 = 2, and with two 4 KiB banks (control =
\* $10) and chrBank1 = 1; the mapper 3 file, and mapper 3 with 32 KiB of CHR;
\* mapper 2 with CHR RAM
MemCarts ==
  {Cartridge_new(2, 1, 0, 0, PrgMinimal), Cartridge_new(2, 1, 1, 0, PrgMinimal),
   CartMapper1,
   Mapper1_load(CartMapper1, 40960, 2, 0),
   Mapper1_load(Mapper1_load(CartMapper1, 32768, 16, 0), 49152, 1, 0),
   Cartridge_parseINES(FileMapper3),
   Cartridge_new(2, 4, 48, 0, PrgMinimal),
   Cartridge_new(2, 0, 32, 0, PrgMinimal)}

\* What an observer of the calls notes down: the last call, its address, what the
\* last ppuRead returned, and of the last ppuWrite the address (-1 before any), the
\* byte and the PPU before it
InitMem ==
  /\ cart \in MemCarts
  /\ \E m \in Modes : ppu = [PPU_new(cart.mirror) EXCEPT !.mirror = m]
  /\ cpu = CPU_new
  /\ ram = << >>
  /\ run = [calls |-> 0]
  /\ obs = [op |-> "init", addr |-> -1, ret |-> 0, waddr |-> -1, val |-> 0,
            before |-> ppu]

\* ppu.ppuWrite(a, b)
CallPpuWrite ==
  /\ run.calls < MaxMemCalls
  /\ \E a \in MemAddrs, b \in MemBytes :
       /\ SetS(ppuWrite(S, a, b))
       /\ obs' = [obs EXCEPT !.op = "ppuWrite", !.addr = a, !.waddr = a, !.val = b,
                             !.before = ppu]
  /\ run' = [run EXCEPT !.calls = run.calls + 1]

\* ppu.ppuRead(a)
CallPpuRead ==
  /\ run.calls < MaxMemCalls
  /\ \E a \in MemAddrs :
       obs' = [obs EXCEPT !.op = "ppuRead", !.addr = a, !.ret = ppuRead(S, a)]
  /\ run' = [run EXCEPT !.calls = run.calls + 1]
  /\ UNCHANGED <<cpu, ppu, ram, cart>>

\* cart.mapperInstance.prgWrite(a, v)
CallMapperPrgWrite ==
  /\ run.calls < MaxMemCalls
  /\ \E a \in PrgAddrs, v \in PrgBytes :
       /\ cart' = prgWrite(cart, a, v)
       /\ obs' = [obs EXCEPT !.op = "prgWrite", !.addr = a]
  /\ run' = [run EXCEPT !.calls = run.calls + 1]
  /\ UNCHANGED <<cpu, ppu, ram>>

\* cart.mapperInstance.prgRead(a)
CallMapperPrgRead ==
  /\ run.calls < MaxMemCalls
  /\ \E a \in PrgAddrs :
       obs' = [obs EXCEPT !.op = "prgRead", !.addr = a, !.ret = prgRead(cart, a)]
  /\ run' = [run EXCEPT !.calls = run.calls + 1]
  /\ UNCHANGED <<cpu, ppu, ram, cart>>

NextMem ==
  \/ CallPpuWrite
  \/ CallPpuRead
  \/ CallMapperPrgWrite
  \/ CallMapperPrgRead

SpecMem == InitMem /\ [][NextMem]_vars

\* the palette cell the claim gives an address in $3F00-$3FFF: the low five bits,
\* $10/$14/$18/$1C being the cells $00/$04/$08/$0C
PaletteCell(a) ==
  IF a % 32 \in {16, 20, 24, 28} THEN (a % 32) - 16 ELSE a % 32

\* C12: once ppuWrite has written a byte at a palette address, every address of
\* $3F00-$3FFF that names the same cell ($3F10+i and $3F00+i for i in {0,4,8,12},
\* the same low five bits otherwise) reads the low six bits of the byte, every
\* address naming another cell reads what it read before, and a ppuRead that
\* follows returns accordingly.
C12_PaletteAliases ==
  (obs.waddr >= 16128 /\ obs.waddr <= 16383) =>
    /\ \A a \in 16128..16383 :
         ppuRead(S, a) =
           IF PaletteCell(a) = PaletteCell(obs.waddr) THEN obs.val % 64
           ELSE ppuRead([S EXCEPT !.ppu = obs.before], a)
    /\ (obs.op = "ppuRead" /\ obs.addr >= 16128
          /\ PaletteCell(obs.addr) = PaletteCell(obs.waddr)) => obs.ret = obs.val % 64

\* $0A written at $3F10 and read back at $3F00
C12_Witness ==
  /\ obs.op = "ppuRead"
  /\ obs.waddr = 16144
  /\ obs.val = 10
  /\ obs.addr = 16128
  /\ obs.ret = 10

\* $17 written at $3F04 and read back at $3F14
C12_WitnessReverse ==
  /\ obs.op = "ppuRead"
  /\ obs.waddr = 16132
  /\ obs.val = 23
  /\ obs.addr = 16148
  /\ obs.ret = 23

\* the 1 KiB bank of VRAM the claim gives logical nametable nt in a mirroring mode
NtBank(mode, nt) ==
  CASE mode = "horizontal" -> nt \div 2
    [] mode = "vertical" -> nt % 2
    [] mode = "single0" -> 0
    [] mode = "single1" -> 1

\* the VRAM index the claim gives an address of $2000-$3EFF
NtCell(mode, a) == NtBank(mode, (a % 4096) \div 1024) * 1024 + (a % 1024)

\* the last ppuWrite, to an address of $2000-$3EFF, has stored its byte in the
\* VRAM cell the claim names and has left every other cell of the 2 KiB alone
NtWriteAsClaimed ==
  (obs.op = "ppuWrite" /\ obs.addr >= 8192 /\ obs.addr < 16128) =>
    /\ DOMAIN ppu.vram \subseteq 0..2047
    /\ \A i \in 0..2047 :
         Get(ppu.vram, i) =
           IF i = NtCell(ppu.mirror, obs.addr) THEN obs.val
           ELSE Get(obs.before.vram, i)

\* C13: in every mirroring mode (horizontal, vertical, single-screen A, single-screen
\* B) a nametable address of $2000-$3EFF is stored in the bank of the 2 KiB VRAM the
\* mode gives its logical nametable, $3000-$3EFF aliasing $2000-$2EFF, at an index
\* in 0..$7FF.
C13_NametableMirroring == NtWriteAsClaimed

\* the same in the three modes other than single-screen B
NtMirroringButSingleB == ppu.mirror # "single1" => NtWriteAsClaimed

(***************************************************************************)
(* Mapper 1 called directly: prgWrite on the mapper of a cartridge whose   *)
(* header names mapper 1 (specification SpecMapper)                        *)
(***************************************************************************)

\* how many prgWrite calls the model makes on one cartridge
MaxMapperWrites == 10

\* the addresses written: one in each of the four register windows ($8000, $A000,
\* $C000, $E000) and the last address of the PRG area
MapperAddrs == {32768, 40960, 49152, 57344, 65535}

\* the values written: bit 7 clear with low bit 0 and 1, and bit 7 set
MapperBytes == {0, 1, 128}

\* What an observer of the writes notes down: the last write, the mapper before it,
\* how many writes with bit 7 clear there have been since the last write with bit 7
\* set or the last fifth write (count, 5 on a fifth write), and the value their low
\* bits spell, first write = bit 0 (bits)
InitMapper ==
  /\ \E flag6 \in {16, 17} : cart = Cartridge_new(2, 1, flag6, 0, PrgMinimal)
  /\ ppu = PPU_new(cart.mirror)
  /\ cpu = CPU_new
  /\ ram = << >>
  /\ run = [calls |-> 0]
  /\ obs = [op |-> "init", addr |-> -1, val |-> 0, count |-> 0, bits |-> 0,
            before |-> cart.mapperInstance]

\* the observer's count and bits after a write of val
Counted(val) ==
  IF val >= 128 THEN [count |-> 0, bits |-> 0]
  ELSE [count |-> (obs.count % 5) + 1,
        bits |-> (IF obs.count % 5 = 0 THEN 0 ELSE obs.bits)
                   + (val % 2) * 2 ^ (obs.count % 5)]

\* cart.mapperInstance.prgWrite(a, v)
CallPrgWrite ==
  /\ run.calls < MaxMapperWrites
  /\ \E a \in MapperAddrs, v \in MapperBytes :
       /\ cart' = Mapper1_prgWrite(cart, a, v)
       /\ obs' = [op |-> "prgWrite", addr |-> a, val |-> v,
                  count |-> Counted(v).count, bits |-> Counted(v).bits,
                  before |-> cart.mapperInstance]
  /\ run' = [run EXCEPT !.calls = run.calls + 1]
  /\ UNCHANGED <<cpu, ppu, ram>>

NextMapper ==
  \/ CallPrgWrite

SpecMapper == InitMapper /\ [][NextMapper]_vars

\* the four registers of the mapper
Registers(m) == <<m.ctrl, m.chrBank0, m.chrBank1, m.prgBank>>

\* C14: a write with bit 7 set, after 0 to 4 bits have been shifted in, leaves the
\* shift register at 0x10, control at its former value OR 0x0C and the three bank
\* registers as they were; a write with bit 7 clear that is not the fifth since
\* then commits nothing (no register changes and the shift register is not back at
\* 0x10), and the fifth does bring the shift register back to 0x10.
C14_ResetWrite ==
  obs.op = "prgWrite" =>
    /\ obs.val >= 128 =>
         /\ cart.mapperInstance.shift = 16
         /\ Registers(cart.mapperInstance) =
              <<Or(obs.before.ctrl, 12), obs.before.chrBank0, obs.before.chrBank1,
                obs.before.prgBank>>
    /\ (obs.val < 128 /\ obs.count < 5) =>
         /\ cart.mapperInstance.shift # 16
         /\ Registers(cart.mapperInstance) = Registers(obs.before)
    /\ (obs.val < 128 /\ obs.count = 5) => cart.mapperInstance.shift = 16

\* a write with bit 7 set arriving after bits were shifted in, on a mapper whose
\* control register an earlier commit had set to 1
C14_Witness ==
  /\ obs.op = "prgWrite"
  /\ obs.val = 128
  /\ obs.before.shift \notin {16}
  /\ obs.before.ctrl = 1
  /\ cart.mapperInstance.ctrl = 13
  /\ cart.mapperInstance.shift = 16

\* the registers after a commit of value d by a write to address a, d going
\* unmasked to the register bits 13-14 of a select
Committed(before, a, d) ==
  LET reg == (a \div 8192) % 4 IN
  <<IF reg = 0 THEN d ELSE before.ctrl,
    IF reg = 1 THEN d ELSE before.chrBank0,
    IF reg = 2 THEN d ELSE before.chrBank1,
    IF reg = 3 THEN d ELSE before.prgBank>>

\* C15: of five writes with bit 7 clear starting from shift register 0x10, the first
\* four change no register, and the fifth commits the five bits written (first
\* write = bit 0) to the register its address selects (0 control, 1 CHR bank 0,
\* 2 CHR bank 1, 3 PRG bank), leaves the three others alone and brings the shift
\* register back to 0x10.
C15_FiveWrites ==
  (obs.op = "prgWrite" /\ obs.val < 128) =>
    /\ obs.count < 5 => Registers(cart.mapperInstance) = Registers(obs.before)
    /\ obs.count = 5 =>
         /\ Registers(cart.mapperInstance) = Committed(obs.before, obs.addr, obs.bits)
         /\ cart.mapperInstance.shift = 16

\* the same with the PRG bank register receiving the low four bits of the value
FiveWritesLowFour ==
  (obs.op = "prgWrite" /\ obs.val < 128) =>
    /\ obs.count < 5 => Registers(cart.mapperInstance) = Registers(obs.before)
    /\ obs.count = 5 =>
         /\ Registers(cart.mapperInstance) =
              Committed(obs.before, obs.addr,
                        IF (obs.addr \div 8192) % 4 = 3 THEN obs.bits % 16
                        ELSE obs.bits)
         /\ cart.mapperInstance.shift = 16

\* a fifth write that commits a value with bit 4 set to CHR bank 1
FiveWritesCommit ==
  /\ obs.op = "prgWrite"
  /\ obs.count = 5
  /\ obs.addr = 49152
  /\ obs.bits = 21
  /\ cart.mapperInstance.chrBank1 = 21

\* nametable addresses in each of the four logical nametables, $3000 mirror included
NtProbes == {8192, 9217, 10303, 11264, 12287, 13312}

\* C28: after a mapper write the PPU maps every nametable address with the
\* mirroring mode the cartridge has then.
C28_MirroringFollowsMapper ==
  obs.op = "prgWrite" =>
    \A a \in NtProbes : ntIndex(ppu, a) = ntIndex([ppu EXCEPT !.mirror = cart.mirror], a)

\* the PPU keeps the mode that connectCart copied, whatever the mapper commits
MirroringAsConnected ==
  /\ ppu.mirror \in {"horizontal", "vertical"}
  /\ ppu = PPU_new(ppu.mirror)
  /\ obs.op = "init" => ppu.mirror = cart.mirror

\* a fifth write to $8000 has committed control = 1 on a cartridge connected as
\* horizontal: the cartridge says vertical, the PPU still maps $2401 to bank 0
MirroringLeftBehind ==
  /\ obs.op = "prgWrite" /\ obs.addr = 32768 /\ obs.count = 5 /\ obs.bits = 1
  /\ cart.mirror = "vertical"
  /\ ppu.mirror = "horizontal"
  /\ ntIndex(ppu, 9217) = 1

\* the mirroring mode the claim gives the low two bits of control
MirrorOfBits(d) ==
  CASE d % 4 = 0 -> "single0"
    [] d % 4 = 1 -> "single1"
    [] d % 4 = 2 -> "vertical"
    [] d % 4 = 3 -> "horizontal"

\* C36: a fifth write that commits d to control leaves the cartridge's mirroring at
\* single-screen A, single-screen B, vertical, horizontal for d mod 4 = 0, 1, 2, 3.
C36_ControlMirroring ==
  (obs.op = "prgWrite" /\ obs.val < 128 /\ obs.count = 5
     /\ (obs.addr \div 8192) % 4 = 0) =>
    cart.mirror = MirrorOfBits(obs.bits)

\* what the commit stores: horizontal, vertical, single0, single1 for 0, 1, 2, 3
ControlMirroringAsCoded ==
  (obs.op = "prgWrite" /\ obs.val < 128 /\ obs.count = 5
     /\ (obs.addr \div 8192) % 4 = 0) =>
    cart.mirror = Mapper1_mirror(obs.bits)

\* control = 3 has been committed and the cartridge's mirroring is single1
ControlThreeIsSingle ==
  /\ obs.op = "prgWrite" /\ obs.addr = 32768 /\ obs.count = 5 /\ obs.bits = 3
  /\ cart.mapperInstance.ctrl = 3
  /\ cart.mirror = "single1"

(***************************************************************************)
(* OAM DMA through the Bus: cpuWrite calls that fill RAM, set oamaddr and  *)
(* write $4014 (specification SpecDma)                                     *)
(***************************************************************************)

\* how many cpuWrite calls the model makes on one machine
MaxDmaCalls == 4

\* the writes: RAM $0200 = $11, $0201 = $22, $02FF = $33; $2003 (oamaddr) = $05 and
\* $FF; $2004 (OAM data) = $09; $2006 = $21; and $4014 with the pages $02 (RAM),
\* $0A (a RAM mirror), $20 (the PPU registers), $80 and $C0 (PRG ROM)
DmaWrites ==
  {<<512, 17>>, <<513, 34>>, <<767, 51>>, <<8195, 5>>, <<8195, 255>>, <<8196, 9>>,
   <<8198, 33>>, <<16404, 2>>, <<16404, 10>>, <<16404, 32>>, <<16404, 128>>,
   <<16404, 192>>}

\* What an observer of the calls notes down: the last call and the machine before it
InitDma ==
  /\ \E banks \in {1, 2} : cart = Cartridge_new(banks, 1, 0, 0, PrgNmi)
  /\ ppu = PPU_new(cart.mirror)
  /\ cpu = CPU_new
  /\ ram = << >>
  /\ run = [calls |-> 0]
  /\ obs = [op |-> "init", addr |-> -1, val |-> 0, before |-> S]

\* bus.cpuWrite(a, b)
CallDmaWrite ==
  /\ run.calls < MaxDmaCalls
  /\ \E w \in DmaWrites :
       /\ SetS(Bus_cpuWrite(S, w[1], w[2]))
       /\ obs' = [op |-> "cpuWrite", addr |-> w[1], val |-> w[2], before |-> S]
  /\ run' = [run EXCEPT !.calls = run.calls + 1]

NextDma ==
  \/ CallDmaWrite

SpecDma == InitDma /\ [][NextDma]_vars

\* The OAM after the last call, a write of $4014, holds the bytes the reads of the
\* transfer returned, from oamaddr on, and the rest of the PPU is as the reads left
\* it (r being the outcome of the 256 reads made one after the other on the
\* machine before the call)
TransferStored(r) ==
  /\ \A i \in 0..255 :
       Get(ppu.oam, (obs.before.ppu.oamaddr + i) % 256) = r.v[i + 1]
  /\ [ppu EXCEPT !.oam = << >>] = [r.s.ppu EXCEPT !.oam = << >>]
  /\ ram = r.s.ram

\* C16: after cpuWrite($4014, p) the OAM byte at index (oamaddr + i) mod 256 is the
\* byte the i-th read cpuRead(p * 256 + i) of the transfer returned, for every i in
\* 0..255, the reads being made in increasing i with their side effects, and
\* oamaddr is what it was.  Where the page holds no PPU register that byte is the
\* one cpuRead returned at the address before the write (undefined counting as the
\* 0 a byte array keeps for it); in a page of PPU registers every read of $2004 is
\* made before the copy and returns the OAM byte oamaddr named before the write.
C16_OamDma ==
  (obs.op = "cpuWrite" /\ obs.addr = 16404) =>
    /\ ppu.oamaddr = obs.before.ppu.oamaddr
    /\ TransferStored(DmaRead(obs.before, obs.val * 256, 256))
    /\ obs.val \notin 32..63 =>
         \A i \in 0..255 :
           Get(ppu.oam, (ppu.oamaddr + i) % 256) =
             Low(Bus_cpuRead(obs.before, obs.val * 256 + i).v, 256)
    /\ obs.val \in 32..63 =>
         \A i \in 0..255 :
           i % 8 = 4 =>
             Get(ppu.oam, (ppu.oamaddr + i) % 256) =
               Get(obs.before.ppu.oam, obs.before.ppu.oamaddr)

\* a DMA from page $80 with oamaddr = 5: the first bytes of the PRG image
\* (A9 80 8D 00 ...) stand at OAM 5 to 8, and the last byte of the page at OAM 4
C16_Witness ==
  /\ obs.op = "cpuWrite"
  /\ obs.addr = 16404
  /\ obs.val = 128
  /\ ppu.oamaddr = 5
  /\ Get(ppu.oam, 5) = 169
  /\ Get(ppu.oam, 7) = 141
  /\ Get(ppu.oam, 8) = 0
  /\ Get(ppu.oam, 4) = 128

\* a DMA from page $20, whose reads of $2004 return the OAM byte $09 written before
\* and whose reads of $2007 move v
DmaFromRegisters ==
  /\ obs.op = "cpuWrite"
  /\ obs.addr = 16404
  /\ obs.val = 32
  /\ obs.before.ppu.oamaddr = 5
  /\ Get(obs.before.ppu.oam, 5) = 9
  /\ Get(ppu.oam, 9) = 9
  /\ ppu.v # obs.before.ppu.v

(***************************************************************************)
(* Cycle counts of step() (specification SpecCpu)                          *)
(***************************************************************************)

\* byte k after the opcode of the instruction the last step() executed (PRG ROM,
\* which no call changes)
Operand(k) == Bus_cpuRead(S, obs.before.pc + k).v

\* the last call was a step() on the store STA $4014 (8D 14 40)
StoredTo4014 ==
  /\ obs.op = "cpu.step"
  /\ obs.before.stall = 0
  /\ obs.before.pc >= 32768
  /\ obs.opcode = 141
  /\ Operand(1) = 20
  /\ Operand(2) = 64

\* C17: the step() that stores to $4014 charges the OAM DMA 513 or 514 cycles on
\* top of the 4 of the store: it returns 517 or 518, or it leaves 513 or 514 stall
\* cycles for the step() calls that follow.
C17_DmaStall ==
  StoredTo4014 => \/ obs.ret \in {517, 518}
                  \/ (obs.ret = 4 /\ cpu.stall \in {513, 514})

\* the store to $4014 has run the DMA and has left no stall cycle at all
DmaWithoutStall ==
  /\ StoredTo4014
  /\ cpu.stall = 0
  /\ obs.before.a = 2

\* the page of an address
Page(a) == a \div 256

\* the last call was a step() on a branch instruction fetched from PRG ROM
SteppedBranch ==
  /\ obs.op = "cpu.step"
  /\ obs.before.stall = 0
  /\ obs.before.pc >= 32768
  /\ obs.opcode \in {16, 48, 80, 112, 144, 176, 208, 240}

\* whether the branch with that opcode is taken with the flags p: BPL, BMI, BVC,
\* BVS, BCC, BCS, BNE, BEQ test N, V, C, Z (bits 7, 6, 0, 1) for 0 or 1
Taken(opcode, p) ==
  LET flag == CASE opcode \in {16, 48} -> 7
                [] opcode \in {80, 112} -> 6
                [] opcode \in {144, 176} -> 0
                [] opcode \in {208, 240} -> 1 IN
  ((p \div 2 ^ flag) % 2 = 1) <=> (opcode \in {48, 112, 176, 240})

\* the target of the branch: the address of the next instruction plus the signed
\* offset
Target ==
  obs.before.pc + 2 + (IF Operand(1) < 128 THEN Operand(1) ELSE Operand(1) - 256)

\* C18: a step() on a branch returns 2 when the branch is not taken, 3 when it is
\* taken to the page of the next instruction, 4 when it is taken to another page.
C18_BranchCycles ==
  SteppedBranch =>
    obs.ret = IF ~Taken(obs.opcode, obs.before.p) THEN 2
              ELSE IF Page(Target) = Page(obs.before.pc + 2) THEN 3
              ELSE 4

\* the branch itself goes where it must: a taken branch sets pc to the target, one
\* not taken to the next instruction
BranchGoes ==
  SteppedBranch =>
    cpu.pc = IF Taken(obs.opcode, obs.before.p) THEN Target ELSE obs.before.pc + 2

\* a taken branch to another page
BranchAcrossPages ==
  /\ SteppedBranch
  /\ Taken(obs.opcode, obs.before.p)
  /\ Page(Target) # Page(obs.before.pc + 2)
  /\ cpu.pc = Target

\* the last call was a step() on an instruction with absolute,X or absolute,Y
\* addressing fetched from PRG ROM
SteppedIndexed ==
  /\ obs.op = "cpu.step"
  /\ obs.before.stall = 0
  /\ obs.before.pc >= 32768
  /\ obs.opcode \in DOMAIN OPCODES
  /\ OPCODES[obs.opcode].mode \in {"ABX", "ABY"}

\* the indexed address of that instruction is in another page than its base
Crossed ==
  LET base == Operand(1) + 256 * Operand(2)
      index == IF OPCODES[obs.opcode].mode = "ABX" THEN obs.before.x
               ELSE obs.before.y IN
  Page((base + index) % 65536) # Page(base)

\* the instructions that take the page-cross cycle
ReadInstructions == {"LDA", "LDX", "LDY", "AND", "ORA", "EOR", "ADC", "SBC", "CMP"}

\* C19: a step() on an instruction with absolute,X or absolute,Y addressing returns
\* the base cost of its opcode plus one if it is a read instruction and the indexed
\* address is in another page than the base, and the base cost alone otherwise
\* (stores and read-modify-writes, crossing or not).
C19_PageCrossReadsOnly ==
  SteppedIndexed =>
    obs.ret = OPCODES[obs.opcode].cyc
                + (IF OPCODES[obs.opcode].ins \in ReadInstructions /\ Crossed
                   THEN 1 ELSE 0)

\* the page-cross flag fetchAddr leaves is set by a store whose indexed address
\* crosses a page (STA $0201,X with X = $FF)
StoreSetsPageCross ==
  /\ SteppedIndexed
  /\ OPCODES[obs.opcode].ins = "STA"
  /\ Crossed
  /\ cpu.pageCross = 1

\* the last call was a step() that fetched a byte with no entry in the table
SteppedUnknown ==
  /\ obs.op = "cpu.step"
  /\ obs.before.stall = 0
  /\ IsNum(obs.opcode)
  /\ obs.opcode \notin DOMAIN OPCODES

\* C20: a step() on a byte that is no opcode of the table is a 2-cycle NOP: it
\* returns 2, the cycle counter goes up by 2, pc by 1, and no other register, no
\* flag and no RAM cell changes.
C20_UnknownOpcode ==
  SteppedUnknown =>
    /\ obs.ret = 2
    /\ cpu = [obs.before EXCEPT !.pc = obs.before.pc + 1,
                                !.cycles = JsAdd(obs.before.cycles, 2)]
    /\ ram = obs.ram

\* what the code does on such a byte: it returns 1 and leaves the cycle counter
UnknownOpcodeAsCoded ==
  SteppedUnknown =>
    /\ obs.ret = 1
    /\ cpu = [obs.before EXCEPT !.pc = obs.before.pc + 1]
    /\ ram = obs.ram

\* a step() on the byte $02 at $8000, right after reset(): it returns 1 and the
\* cycle counter stays at 7
UnknownOpcodeStepped ==
  /\ SteppedUnknown
  /\ obs.opcode = 2
  /\ obs.before.pc = 32768
  /\ obs.before.cycles = 7
  /\ obs.ret = 1
  /\ cpu.cycles = 7

\* C21: at every instruction boundary (after reset() and after every step(), nmi()
\* and irq() call) the flag register has U (bit 5) set and B (bit 4) clear.
C21_LiveFlags ==
  obs.op # "init" => And(cpu.p, 48) = 32

\* U is set at every boundary, and B is set at a boundary only once a BRK has set
\* it: a call other than a step() on BRK never turns B on
LiveFlagsButBreak ==
  /\ Bit(cpu.p, 5) = 1
  /\ (obs.op # "init" /\ Bit(obs.before.p, 4) = 0 /\ Bit(cpu.p, 4) = 1) =>
       (obs.op = "cpu.step" /\ obs.opcode = 0)

\* a step() on the BRK at $8006 after reset(): the byte it pushed has B and U set,
\* and so has the flag register it leaves
BreakLeavesB ==
  /\ obs.op = "cpu.step"
  /\ obs.opcode = 0
  /\ obs.before.pc = 32774
  /\ obs.before.p = 36
  /\ And(Get(ram, 256 + cpu.sp + 1), 48) = 48
  /\ cpu.p = 52

\* the flags C, Z, I, D, V, N of a status byte
Flags(p) == And(p, 207)

\* C29: a step() on RTI that follows nmi() directly (the handler is one RTI, the
\* stack balanced) leaves pc, sp and the flags C, Z, I, D, V, N as they were before
\* nmi().
C29_NmiTransparent ==
  [][(obs.op = "cpu.nmi" /\ obs'.op = "cpu.step" /\ obs'.opcode = 64) =>
       /\ cpu'.pc = obs.before.pc
       /\ cpu'.sp = obs.before.sp
       /\ Flags(cpu'.p) = Flags(obs.before.p)]_vars

\* nmi() and RTI give back pc, sp and C, Z, D, V, N; I comes back set
NmiReturnAsCoded ==
  [][(obs.op = "cpu.nmi" /\ obs'.op = "cpu.step" /\ obs'.opcode = 64) =>
       /\ cpu'.pc = obs.before.pc
       /\ cpu'.sp = obs.before.sp
       /\ And(cpu'.p, 203) = And(obs.before.p, 203)
       /\ Bit(cpu'.p, 2) = 1]_vars

\* reset(), CLI, nmi(), RTI: back at $8001 with sp = $FD, and I set
NmiReturnSetsI ==
  /\ obs.op = "cpu.step" /\ obs.opcode = 64 /\ obs.before.pc = 32784
  /\ cpu.pc = 32769 /\ cpu.sp = 253
  /\ Get(ram, 256 + 253) = 128 /\ Get(ram, 256 + 252) = 1
  /\ cpu.p = 36

\* C38: after any reset(), step(), nmi() and irq() calls pc is an integer of
\* 0..$FFFF.
C38_PcInRange ==
  cpu.pc \in 0..65535

\* reset() and nmi() leave pc in 0..$FFFF, irq() does or leaves pc as it was; a
\* step() on NOP or on a byte that is no opcode leaves pc one past the opcode's
\* address, without wrapping
PcAsCoded ==
  /\ obs.op \in {"cpu.reset", "cpu.nmi"} => cpu.pc \in 0..65535
  /\ obs.op = "cpu.irq" => (cpu.pc \in 0..65535 \/ cpu.pc = obs.before.pc)
  /\ (obs.op = "cpu.step" /\ obs.opcode \in {2, 234}) => cpu.pc = obs.before.pc + 1

\* the step() on the NOP at $FFFF has left pc = $10000
PcPastTop ==
  /\ obs.op = "cpu.step" /\ obs.opcode = 234
  /\ obs.before.pc = 65535
  /\ cpu.pc = 65536

(***************************************************************************)
(* Claims about loading a ROM and starting it (specification Spec)         *)
(***************************************************************************)

\* C22: a load of a file whose first four bytes are not 'N','E','S',$1A throws and
\* changes nothing: the loaded system (CPU, PPU, RAM, cartridge), the running flag,
\* the pending callbacks and the enabled state of Run, Pause and Reset are after
\* the load attempt what they were before it.
C22_BadMagicLoad ==
  /\ [](\A b \in RomFiles : b.magic # Magic => Cartridge_throws(b))
  /\ [][obs'.op = "load (bad magic)" =>
          /\ UNCHANGED <<cpu, ppu, ram, cart>>
          /\ [run' EXCEPT !.reading = run.reading] = run]_vars

\* a file with a wrong magic was chosen, and its bytes have arrived after the
\* built-in ROM was loaded: a system exists and Run, Pause and Reset are enabled
C22_Witness ==
  /\ obs.op = "load (bad magic)"
  /\ run.loaded /\ run.enabled
  /\ run.reading = << >>
  /\ cart = Cartridge_parseINES(FileBuiltIn)

\* C23: a load of a file with the right magic and a body shorter than its header
\* declares fails: no system is created and none is replaced.
C23_TruncatedLoad ==
  [][obs'.op = "load (truncated)" =>
       /\ UNCHANGED <<cpu, ppu, ram, cart>>
       /\ [run' EXCEPT !.reading = run.reading] = run]_vars

\* the truncated file has been loaded: the cartridge has the CHR bytes the file
\* had left, and the buttons are enabled
TruncatedLoadBuilds ==
  /\ obs.op = "load (truncated)"
  /\ run.loaded /\ run.enabled
  /\ cart.prgLen = 32768 /\ cart.chrLen = 4096

\* C30: with no Reset clicked since the load, the first cpu.step() after a load
\* fetches its opcode at the address in the reset vector, with sp = $FD.
C30_StartsAtResetVector ==
  (obs.first # << >> /\ ~obs.first[3]) =>
    /\ obs.first[1] = Word(Cartridge_read(cart, ResetVector),
                           Cartridge_read(cart, ResetVector + 1))
    /\ obs.first[2] = 253

\* what the first cpu.step() finds: sp = $FD always, pc = 0 unless Reset was clicked,
\* and the reset vector if it was
FirstStepAsCoded ==
  obs.first # << >> =>
    /\ obs.first[2] = 253
    /\ obs.first[1] = IF obs.first[3]
                      THEN Word(Cartridge_read(cart, ResetVector),
                                Cartridge_read(cart, ResetVector + 1))
                      ELSE 0

\* the first cpu.step() after load and Run has fetched at $0000
FirstStepAtZero ==
  /\ obs.op = "cpu.step" /\ obs.prev = "enter"
  /\ obs.first = <<0, 253, FALSE>>
  /\ cart = Cartridge_parseINES(FileNmi)

\* How far runLoop is inside one iteration of its while loop: 0 before cpu.step(),
\* then a number that grows with every ppu.step() and every cpu.nmi()
Inner(r) ==
  IF r.pos \in {"ppu", "nmi"} THEN 2 * r.i + (IF r.pos = "nmi" THEN 2 ELSE 1) ELSE 0

\* C25: every invocation of runLoop leaves its while loop.  Inside the loop fewer
\* than 200000 iterations are complete (so cpu.step() is called at most 200000
\* times), and inside the for loop i is below 3 * cyc, a number; every call made
\* inside the loop raises the pair (iter, Inner), which these bounds cap, so that
\* the calls of one invocation are finitely many.  An iteration that ends with
\* ppu.frame changed since the entry ends the loop, and the loop ends only so or
\* with the 200000th iteration.
C25_RunLoopFinishes ==
  /\ [](run.pos # "idle" => run.iter < MaxIter)
  /\ [](run.pos \in {"ppu", "nmi"} =>
          IsNum(run.cyc) /\ run.i >= 0 /\ run.i < 3 * run.cyc)
  /\ [][run.pos # "idle" =>
          \/ run'.iter = run.iter + 1 /\ run'.pos \in {"cpu", "idle"}
          \/ run'.iter = run.iter /\ Inner(run') > Inner(run)]_vars
  /\ [](obs.iterEnd /\ ppu.frame # run.startFrame => run.pos = "idle")
  /\ [](obs.iterEnd /\ run.pos = "idle" =>
          (ppu.frame # run.startFrame \/ run.iter = MaxIter))

\* the watchdog has ended a loop in which the PPU was never stepped
C25_Witness ==
  /\ obs.iterEnd /\ run.pos = "idle"
  /\ run.iter = MaxIter
  /\ ppu.frame = run.startFrame
  /\ obs.ppuSteps = 0

\* the cpu.step() calls of one runLoop after which the wait loop must be over: a
\* frame has 341 * 262 dots and one turn of the loop (LDA abs, BPL taken) is 7
\* cycles, 21 dots
PollBound == 10000

\* C31: the loop LDA $2002 / BPL back ends when runLoop drives it: after PollBound
\* cpu.step() calls of one runLoop the program is no longer in the loop.
C31_PollLoopExits ==
  (cart.prg = PrgPoll /\ run.pos = "cpu" /\ run.iter >= PollBound) =>
    cpu.pc \notin {32768, 32771}

\* while the wait loop runs no ppu.step() is ever called: the PPU stays at the dot
\* where the constructor or reset() put it, with VBlank clear
PollNeverSteps ==
  cart.prg = PrgPoll =>
    /\ obs.ppuSteps = 0
    /\ ppu.scanline = 261 /\ ppu.cycle = 0 /\ ppu.frame = 0
    /\ Bit(ppu.status, 7) = 0
    /\ obs.op = "cpu.step" => ~IsNum(obs.ret)

\* the watchdog has ended a runLoop that spent its 200000 cpu.step() calls in the
\* wait loop
PollEndsAtWatchdog ==
  /\ cart.prg = PrgPoll
  /\ run.pos = "idle" /\ run.iter = MaxIter
  /\ cpu.pc \in {32768, 32771}
  /\ Bit(cpu.a, 7) = 0

\* C32: whatever the order of the Run, Pause, Reset and load events and of the
\* animation-frame callbacks, at most one runLoop callback is pending; and with
\* running false (after Pause) no cpu.step(), ppu.step() or cpu.nmi() is made.
C32_OnePendingCallback ==
  /\ run.pending <= 1
  /\ ~run.running => run.pos = "idle"

\* what holds of the callbacks: every runLoop that runs a frame leaves one more
\* pending, and with running false runLoop makes no call
PausedMakesNoCall ==
  /\ ~run.running => run.pos = "idle"
  /\ run.pending <= run.runs

\* Run was clicked while a callback of the first runLoop was pending: two callbacks
\* are pending now
TwoCallbacksPending ==
  /\ run.pos = "idle" /\ run.running
  /\ run.runs = 2
  /\ run.pending = 2

(***************************************************************************)
(* Claims about the scroll registers under step() (specification SpecPpu)  *)
(***************************************************************************)

\* C27: with rendering disabled ((mask & $18) = 0) a step() leaves v, t, x and w as
\* they were, at every dot.
C27_StepKeepsAddress ==
  [][(obs'.op = "ppu.step" /\ And(ppu.mask, 24) = 0) =>
       (ppu'.v = ppu.v /\ ppu'.t = ppu.t /\ ppu'.x = ppu.x /\ ppu'.w = ppu.w)]_vars

\* with rendering disabled a step() leaves t, x and w, and moves v by incCoarseX at
\* the dots 8, 16, ..., 256 of the scanlines 0..239 and at no other dot
StepMovesCoarseX ==
  [][(obs'.op = "ppu.step" /\ And(ppu.mask, 24) = 0) =>
       /\ ppu'.t = ppu.t /\ ppu'.x = ppu.x /\ ppu'.w = ppu.w
       /\ ppu'.v = IF ppu.scanline <= 239 /\ ppu.cycle >= 1 /\ ppu.cycle <= 256
                      /\ ppu.cycle % 8 = 0
                   THEN incCoarseX(ppu).v ELSE ppu.v]_vars

\* the step() at scanline 0 dot 8 of a PPU whose mask was never written has moved v
\* from 0 to 1
CoarseXMovedWhileOff ==
  /\ obs.op = "ppu.step"
  /\ obs.before.scanline = 0 /\ obs.before.cycle = 8
  /\ ppu.mask = 0
  /\ ppu.v = 1

(***************************************************************************)
(* The PPU drawing a frame: step() on a machine with CHR RAM whose pattern *)
(* tables, palette and OAM a program has written through $2003/$2004 and   *)
(* $2006/$2007 before the first step (specification SpecRender)            *)
(***************************************************************************)

RECURSIVE WriteRange(_, _, _, _)
\* bus.cpuWrite(w[1], w[2]) for the writes lo..hi of the sequence ws, in order (the
\* first half is carried out before the second is begun)
WriteRange(s, ws, lo, hi) ==
  IF lo > hi THEN s
  ELSE IF lo = hi THEN Bus_cpuWrite(s, ws[lo][1], ws[lo][2])
  ELSE LET mid == (lo + hi) \div 2
           s1 == WriteRange(s, ws, lo, mid)
       IN IF s1.ppu.w \in {0, 1} THEN WriteRange(s1, ws, mid + 1, hi) ELSE s1

\* the writes of the sequence ws, in order
WriteAll(s, ws, k) == WriteRange(s, ws, k, Len(ws))

\* $2006 twice and then the bytes through $2007
WritesAt(hi, lo, bytes) ==
  <<(<<8198, hi>>), (<<8198, lo>>)>> \o [k \in 1..Len(bytes) |-> <<8199, bytes[k]>>]

\* the pattern tables: plane 0 of the tiles 0 and 1 all ones, so that every pixel of
\* these tiles is 1
SceneChr ==
  WritesAt(0, 0, <<255, 255, 255, 255, 255, 255, 255, 255>>)
  \o WritesAt(0, 16, <<255, 255, 255, 255, 255, 255, 255, 255>>)

\* the palette: backdrop $0F, background colour 1 of group 0 = $21, sprite colour 1
\* of group 4 = $16 and of group 5 = $2A
ScenePalette ==
  WritesAt(63, 0, <<15, 33>>) \o WritesAt(63, 17, <<22>>) \o WritesAt(63, 21, <<42>>)

\* OAM entries 0..11, four bytes (Y, tile, attributes, X) each; the entries 12..63
\* are hidden below the picture (Y 240).
\*   0      Y 20, X 4:  sprite 0 over the left eight pixels
\*   1..8   Y 50:       eight sprites on one scanline
\*   9      Y 54:       a ninth on the scanlines 54..57
\*   10     Y 100, X 250: a sprite that runs off the right edge
\*   11     Y 236, X 16, palette 5: a sprite on the last scanlines
SceneOam ==
  <<20, 0, 0, 4,
    50, 0, 0, 8,    50, 0, 0, 24,   50, 0, 0, 40,   50, 0, 0, 56,
    50, 0, 0, 72,   50, 0, 0, 88,   50, 0, 0, 104,  50, 0, 0, 120,
    54, 0, 0, 136,
    100, 0, 0, 250,
    236, 0, 1, 16>>

HiddenOam == [k \in 1..208 |-> IF k % 4 = 1 THEN 240 ELSE 0]

SceneOamWrites ==
  <<(<<8195, 0>>)>> \o [k \in 1..256 |-> <<8196, (SceneOam \o HiddenOam)[k]>>]

\* the ctrl values (8x8 and 8x16 sprites) and the mask values (background and sprites
\* on, the left eight pixels hidden or shown) of the scenes
SceneCtrls == {0, 32}

SceneMasks == {24, 30}

\* the machine after construction with a CHR RAM cartridge and the program's writes
Scene(ctrl, mask) ==
  WriteAll([cpu |-> CPU_new, ppu |-> PPU_new("horizontal"), ram |-> << >>,
            cart |-> Cartridge_new(2, 0, 0, 0, PrgMinimal)],
           SceneChr \o ScenePalette \o SceneOamWrites
           \o <<(<<8192, ctrl>>), (<<8193, mask>>)>>, 1)

\* the frame and scanline at which the model stops calling step()
LastFrame == 2

LastLine == 1

\* how many mask writes and palette writes the model makes in one run, and how many
\* step() calls after a mask write
MaxMaskWrites == 2

MaxPaletteWrites == 1

MaxAfterMask == 700

\* the dots before which the model writes the mask: dot 257 of scanline 101 (the
\* sprite evaluation), dot 0 of scanline 102
MaskDots == {<<101, 257>>, <<102, 0>>}

\* the dot before which the model writes the palette (in VBlank), the cells it writes
\* ($3F01, $3F11) and the values
PaletteDot == <<241, 2>>

PaletteCells == {1, 17}

PaletteValues == {48}

\* What an observer of the PPU notes down: the last call, the PPU before it, and the
\* scanline and frame of the last sprite evaluation (-1 before the first)
InitRender ==
  /\ \E c \in SceneCtrls, m \in SceneMasks :
       /\ cpu = Scene(c, m).cpu
       /\ ppu = Scene(c, m).ppu
       /\ ram = Scene(c, m).ram
       /\ cart = Scene(c, m).cart
       /\ obs = [op |-> "init", before |-> Scene(c, m).ppu, evalLine |-> -1,
                 evalFrame |-> -1]
  /\ run = [maskWrites |-> 0, since |-> 0, paletteWrites |-> 0]

\* whether a step() of the PPU p runs the sprite evaluation
Evaluates(p) == p.scanline <= 239 /\ p.cycle = 257 /\ renderingEnabled(p)

\* whether a step() of the PPU p draws a pixel through renderPixel
Draws(p) == p.scanline <= 239 /\ p.cycle >= 1 /\ p.cycle <= 256 /\ renderingEnabled(p)

\* ppu.step()
RenderStep ==
  /\ ppu.frame < LastFrame \/ ppu.scanline < LastLine
  /\ IF run.maskWrites = 0 THEN TRUE ELSE run.since < MaxAfterMask
  /\ SetS(PPU_step(S))
  /\ obs' = [op |-> "ppu.step", before |-> ppu,
             evalLine |-> IF Evaluates(ppu) THEN ppu.scanline ELSE obs.evalLine,
             evalFrame |-> IF Evaluates(ppu) THEN ppu.frame ELSE obs.evalFrame]
  /\ run' = [run EXCEPT !.since = IF run.maskWrites = 0 THEN 0 ELSE run.since + 1]

\* bus.cpuWrite($2001, m): rendering off, or on again
RenderWriteMask ==
  /\ run.maskWrites < MaxMaskWrites
  /\ <<ppu.scanline, ppu.cycle>> \in MaskDots
  /\ \E m \in {0, 30} :
       /\ m # ppu.mask
       /\ SetS(Bus_cpuWrite(S, 8193, m))
  /\ obs' = [obs EXCEPT !.op = "write mask", !.before = ppu]
  /\ run' = [run EXCEPT !.maskWrites = run.maskWrites + 1, !.since = 0]

\* $2006 = $3F, $2006 = cell, $2007 = value: a palette cell rewritten in VBlank
RenderWritePalette ==
  /\ run.paletteWrites < MaxPaletteWrites
  /\ run.maskWrites = 0
  /\ <<ppu.scanline, ppu.cycle>> = PaletteDot
  /\ \E cell \in PaletteCells, val \in PaletteValues :
       SetS(WriteAll(S, WritesAt(63, cell, <<val>>), 1))
  /\ obs' = [obs EXCEPT !.op = "write palette", !.before = ppu]
  /\ run' = [run EXCEPT !.paletteWrites = run.paletteWrites + 1]

NextRender ==
  \/ RenderStep
  \/ RenderWriteMask
  \/ RenderWritePalette

SpecRender == InitRender /\ [][NextRender]_vars

(***************************************************************************)
(* Claims about sprites and colours (specification SpecRender)             *)
(***************************************************************************)

\* the OAM entries of p in range on the scanline: row = line - Y in [0, h)
InRange(p, line) ==
  {i \in 0..63 : /\ line - Get(p.oam, 4 * i) >= 0
                 /\ line - Get(p.oam, 4 * i) < (IF Bit(p.ctrl, 5) = 1 THEN 16 ELSE 8)}

\* the element of the set of numbers with k smaller elements in the set
Kth(set, k) == CHOOSE i \in set : Cardinality({j \in set : j < i}) = k

\* C35: after the sprite evaluation (dot 257 of a visible scanline, rendering
\* enabled) secondary OAM holds the first min(8, n) of the n sprites in range, in
\* OAM order, and $FF in the unused slots; the evaluation sets status bit 5 if and
\* only if n >= 9; spriteZeroInLine is true if and only if sprite 0 is in range.
C35_SpriteEvaluation ==
  (obs.op = "ppu.step" /\ Evaluates(obs.before)) =>
    LET found == InRange(obs.before, obs.before.scanline)
        n == Cardinality(found)
    IN /\ \A k \in 0..7, b \in 0..3 :
            Get(ppu.secOAM, 4 * k + b) =
              IF k < n THEN Get(obs.before.oam, 4 * Kth(found, k) + b) ELSE 255
       /\ Bit(ppu.status, 5) = 1 <=> (Bit(obs.before.status, 5) = 1 \/ n >= 9)
       /\ ppu.spriteZeroInLine <=> 0 \in found

\* the evaluation at scanline 54 with 8x8 sprites: nine sprites in range, the eight
\* at Y 50 in secondary OAM, the overflow flag comes on
C35_Witness ==
  /\ obs.op = "ppu.step"
  /\ obs.before.scanline = 54 /\ obs.before.cycle = 257 /\ obs.before.mask = 30
  /\ obs.before.ctrl = 0
  /\ Cardinality(InRange(obs.before, 54)) = 9
  /\ Bit(obs.before.status, 5) = 0 /\ Bit(ppu.status, 5) = 1
  /\ Get(ppu.secOAM, 0) = 50 /\ Get(ppu.secOAM, 3) = 8
  /\ Get(ppu.secOAM, 28) = 50 /\ Get(ppu.secOAM, 31) = 120
  /\ ~ppu.spriteZeroInLine

\* the PPU as renderPixel finds it in the step() of the PPU b: after the background
\* fetch of the dot
Sampled(b) == StepFetch([cpu |-> cpu, ppu |-> b, ram |-> ram, cart |-> cart]).ppu

\* whether renderPixel in the step() of b finds a pixel of sprite 0
SpriteZeroPixel(b) ==
  /\ SpritePixel(Sampled(b)).px # 0
  /\ SpritePixel(Sampled(b)).slot = 0
  /\ Sampled(b).spriteZeroInLine

\* the condition of the sprite-0 hit with the left-column bits of the mask
HitCondition(b) ==
  /\ b.scanline <= 239 /\ b.cycle >= 1 /\ b.cycle <= 256
  /\ Bit(b.mask, 3) = 1 /\ Bit(b.mask, 4) = 1
  /\ BgPixel(Sampled(b)) # 0
  /\ SpriteZeroPixel(b)
  /\ b.cycle - 1 # 255
  /\ b.cycle - 1 < 8 => (Bit(b.mask, 1) = 1 /\ Bit(b.mask, 2) = 1)

\* C33: step() sets status bit 6 only at a visible dot where the background pixel
\* and the pixel of sprite 0 are both non-transparent, x is not 255, background and
\* sprites are both enabled and, when x < 8, mask bits 1 and 2 are both set; every
\* other step() leaves bit 6 as it was (the step() at scanline 261 dot 1, which
\* clears the flags, aside).
C33_SpriteZeroHit ==
  obs.op = "ppu.step" =>
    IF HitCondition(obs.before) THEN Bit(ppu.status, 6) = 1
    ELSE IF obs.before.scanline = 261 /\ obs.before.cycle = 1 THEN Bit(ppu.status, 6) = 0
    ELSE Bit(ppu.status, 6) = Bit(obs.before.status, 6)

\* the hit as step() sets it: the same condition without the left-column bits
HitAsCoded ==
  obs.op = "ppu.step" =>
    IF /\ Draws(obs.before)
       /\ BgPixel(Sampled(obs.before)) # 0
       /\ SpriteZeroPixel(obs.before)
       /\ obs.before.cycle - 1 < 255
    THEN Bit(ppu.status, 6) = 1
    ELSE IF obs.before.scanline = 261 /\ obs.before.cycle = 1 THEN Bit(ppu.status, 6) = 0
    ELSE Bit(ppu.status, 6) = Bit(obs.before.status, 6)

\* the step() at scanline 21, x = 4, with mask $18 (left columns hidden) has set
\* the hit flag
HitInLeftColumn ==
  /\ obs.op = "ppu.step"
  /\ obs.before.scanline = 21 /\ obs.before.cycle = 5
  /\ obs.before.mask = 24
  /\ Bit(obs.before.status, 6) = 0
  /\ Bit(ppu.status, 6) = 1

\* the colour of palette RAM cell i, through the mirroring of the cells $10/$14/$18/$1C
PaletteColour(p, i) == paletteRGB(Low(Get(p.palette, PaletteIndex(i)), 64))

\* C34: the colour step() writes to the framebuffer for a non-transparent pixel is
\* the NTSC table entry that palette RAM holds at paletteGroup * 4 + px (sprite
\* groups from 16 on), so that a write to that palette cell changes the colour of
\* the pixel in the next frame.
C34_ColourFromPaletteRam ==
  (obs.op = "ppu.step" /\ Draws(obs.before)) =>
    LET q == Sampled(obs.before)
        sp == SpritePixel(q)
        attr == SlotAttr(q, sp)
        bg == BgPixel(q)
    IN IF SpriteShown(sp.px, Bit(attr, 5), bg)
       THEN ppu.fbPixel = PaletteColour(q, 16 + ((attr % 4) * 4) + sp.px)
       ELSE bg # 0 => ppu.fbPixel = PaletteColour(q, BgPalette(q) + bg)

\* the colour as step() selects it: the NTSC table entry 16 + group * 4 + px itself,
\* whatever palette RAM holds
ColourAsCoded ==
  (obs.op = "ppu.step" /\ Draws(obs.before)) =>
    LET q == Sampled(obs.before)
        sp == SpritePixel(q)
        attr == SlotAttr(q, sp)
        bg == BgPixel(q)
    IN IF SpriteShown(sp.px, Bit(attr, 5), bg)
       THEN ppu.fbPixel = paletteRGB(16 + ((attr % 4) * 4) + sp.px)
       ELSE bg # 0 => ppu.fbPixel = paletteRGB(16 + BgPalette(q) + bg)

\* palette cell $3F01 was rewritten to $30 in VBlank, and the background pixel drawn
\* in the next frame still has the NTSC colour $11
PaletteWriteIgnored ==
  /\ obs.op = "ppu.step"
  /\ obs.before.frame = 2 /\ obs.before.scanline = 0 /\ Draws(obs.before)
  /\ Get(ppu.palette, 1) = 48
  /\ BgPixel(Sampled(obs.before)) = 1 /\ ~ppu.fbSprite
  /\ ppu.fbPixel = paletteRGB(17)
  /\ ppu.fbPixel # paletteRGB(48)

\* C40: a sprite pixel drawn on a visible scanline y comes from the evaluation at
\* dot 257 of scanline y - 1 of the same frame: none is drawn on scanline 0 and none
\* on a scanline whose preceding evaluation was skipped.
C40_SpritesFromPrecedingLine ==
  (obs.op = "ppu.step" /\ Draws(obs.before) /\ ppu.fbSprite) =>
    /\ obs.before.scanline # 0
    /\ obs.evalFrame = obs.before.frame
    /\ obs.evalLine = obs.before.scanline - 1

\* a sprite pixel comes from the last evaluation that ran, whenever that was: its
\* slot holds a sprite in range on the scanline of that evaluation
SpritesFromLastEvaluation ==
  (obs.op = "ppu.step" /\ Draws(obs.before) /\ ppu.fbSprite) =>
    LET q == Sampled(obs.before)
        row == obs.evalLine - Get(q.spriteY, SpritePixel(q).slot)
    IN /\ obs.evalLine >= 0
       /\ row >= 0 /\ row < SpriteHeight(q)

\* scanline 0 of the second frame shows a pixel of the sprite at Y 236 that the
\* evaluation at scanline 239 of the first frame loaded
SpriteOnScanlineZero ==
  /\ obs.op = "ppu.step"
  /\ obs.before.scanline = 0 /\ obs.before.frame = 2 /\ Draws(obs.before)
  /\ ppu.fbSprite
  /\ obs.evalLine = 239 /\ obs.evalFrame = 1
  /\ Get(obs.before.spriteY, SpritePixel(Sampled(obs.before)).slot) = 236

\* rendering was off at dot 257 of scanline 101 and on again from dot 0 of scanline
\* 102: scanline 102 shows at x = 0 what the sprite at X 250 had left in its shift
\* register, loaded by the evaluation at scanline 100
SpriteAfterSkippedEvaluation ==
  /\ obs.op = "ppu.step"
  /\ obs.before.scanline = 102 /\ obs.before.cycle = 1 /\ Draws(obs.before)
  /\ ppu.fbSprite
  /\ obs.evalLine = 100 /\ obs.evalFrame = obs.before.frame
  /\ Get(obs.before.spriteY, SpritePixel(Sampled(obs.before)).slot) = 100
====
